---- MODULE Spec2Model ----
(***************************************************************************)
(* A model of hardhat-cover's attribution engine: SourceMap (the byte      *)
(* walker), Trace.followInfo (call-frame reconstruction), Sources (path    *)
(* disambiguation and fuzzy bytecode resolution) and Coverage.report (hit  *)
(* tallying).                                                              *)
(*                                                                         *)
(* A JavaScript string is a sequence of one-character strings, so a hex   *)
(* string is a sequence over "0".."9", "a".."f".  Each component has its   *)
(* own specification:                                                      *)
(*   SpecPC      SourceMap.buildPCToInstructionIndices                     *)
(*   SpecTrace   Trace.followInfo                                          *)
(*   SpecSources Sources: constructor, indexing, bytecodeToSourceMap       *)
(*   SpecReport  Coverage.report over a Sources                            *)
(* The variables of the other components stay at their idle values.        *)
(***************************************************************************)
EXTENDS Integers, Sequences, FiniteSets, TLC

VARIABLES
    \* ---- SourceMap.buildPCToInstructionIndices
    bytecode,                \* the argument: a hex string
    pcToInstructionIndices,  \* the table returned, a set of <<pc, index>>
    pcPhase                  \* "input" before the call, "built" after it

pcVars == <<bytecode, pcToInstructionIndices, pcPhase>>

VARIABLES
    \* ---- Trace.followInfo
    txTo,         \* info.txData.to: an address string, or null
    structLogs,   \* info.traced.structLogs
    followIdx,    \* the loop index i of followInfo, 1-based
    frames,       \* the reconstructed stack of frames
    taggedLogs,   \* the TaggedLogs yielded so far
    followState   \* "running", "done", or "fault" once it has thrown

traceVars == <<txTo, structLogs, followIdx, frames, taggedLogs, followState>>

VARIABLES
    \* ---- Sources
    artifacts,               \* the constructor's argument, in key order: each
                             \* entry a bytecode and the compilerSources of its
                             \* SourceMap; a SourceMap object is named by the
                             \* position of its entry
    bytecodeToSourceMaps,    \* in key (insertion) order: [bytecode, sourceMap]
    bytecodeAndIndexToPath,  \* bytecode -> (source id -> path)
    pathToCompilerSources,   \* path -> CompilerSource
    unique,
    sourcesState,            \* "constructing", "ready", or "fault" when the
                             \* constructor has thrown
    ctorNext,                \* the next key of the constructor's loop
    lastLookup,              \* the last bytecodeToSourceMap call and its outcome
    fuzzyReturned            \* history: the [bytecode, sourceMap] returned by
                             \* fuzzy matches so far

srcVars == <<artifacts, bytecodeToSourceMaps, bytecodeAndIndexToPath,
             pathToCompilerSources, unique, sourcesState, ctorNext, lastLookup,
             fuzzyReturned>>

VARIABLES
    \* ---- Coverage.report
    addressToBytecodes,  \* Sources.addressToBytecodes
    pathToSyntax,        \* Coverage.pathToSyntax
    report,              \* the accumulated Report
    logsA, logsB,        \* the logs of two transactions, reported in this order
    reportPos,           \* the number of logs of logsA \o logsB processed
    reportState,         \* "running", "done", or "failed" once a call threw
    filtered             \* the result of filteredReport(report), <<>> before

repVars == <<addressToBytecodes, pathToSyntax, report, logsA, logsB, reportPos,
             reportState, filtered>>

VARIABLES
    \* ---- Coverage.buildPathToSyntax, for one source
    rawSource,           \* input.content, a sequence of bytes
    astCalls,            \* the insert calls the walk of output.ast makes, in order
    built,               \* features, branchMap, fnMap and statementMap so far
    walked,              \* the number of insert calls made
    syntaxPhase          \* "start", "walking", "done"; "idle" when not in use

synVars == <<rawSource, astCalls, built, walked, syntaxPhase>>

VARIABLES
    \* ---- SourceMap.parse
    sourceMapText,       \* code.sourceMap, a sequence of characters
    instructionIndexToRanges,  \* element k + 1 is instructionIndexToRanges[k]
    parsePhase           \* "input", "parsed"; "idle" when not in use

parseVars == <<sourceMapText, instructionIndexToRanges, parsePhase>>

VARIABLES
    \* ---- Trace.crawl after followInfo, and Sources.loadAddresses
    traceAddressToBytecodes,  \* trace.addressToBytecodes, <<>> before it is built
    loaded,              \* the argument of the last loadAddresses call
    everLoaded,          \* the keys given to loadAddresses so far
    lastAddressLookup,   \* the last addressToBytecode call: its argument and outcome
    requests             \* the requests the running crawl sent to the provider

crawlVars == <<traceAddressToBytecodes, loaded, everLoaded, lastAddressLookup, requests>>

VARIABLES
    \* ---- Coverage.traceAndReport
    txHashes,            \* the hashes it is called with
    txPos,               \* the number of hashes its loop has gone through
    reported,            \* the positions of txHashes whose logs report went through
    tarState             \* "running", "returned", "threw"; "idle" when not in use

tarVars == <<txHashes, txPos, reported, tarState>>

VARIABLES
    \* ---- CoverInterceptor over a provider
    inflight,            \* the requests made to the interceptor, by id
    nextSnapshotId,      \* the id the provider gives its next snapshot
    nextTxHash,          \* the hash the provider gives its next transaction
    chain,               \* the hashes of the transactions in the provider's state
    snapshots            \* the snapshots one can revert to: id :> length of chain

icptVars == <<inflight, nextSnapshotId, nextTxHash, chain, snapshots>>

vars == <<pcVars, traceVars, srcVars, repVars, synVars, parseVars, crawlVars, tarVars, icptVars>>

----------------------------------------------------------------------------
(* Generic helpers.                                                         *)

RECURSIVE SeqsUpTo(_, _)
\* All sequences over S of length 0..n.
SeqsUpTo(S, n) ==
    IF n = 0 THEN {<<>>}
    ELSE LET shorter == SeqsUpTo(S, n - 1)
         IN  shorter \cup {Append(s, x) : s \in {t \in shorter : Len(t) = n - 1}, x \in S}

\* The value of a hex digit, as Buffer.from(_, 'hex') and BigInt('0x' + _)
\* read it.
HexVal ==
    [c \in {"0", "1", "2", "3", "4", "5", "6", "7", "8", "9",
            "a", "b", "c", "d", "e", "f"} |->
        CASE c = "0" -> 0  [] c = "1" -> 1  [] c = "2" -> 2  [] c = "3" -> 3
          [] c = "4" -> 4  [] c = "5" -> 5  [] c = "6" -> 6  [] c = "7" -> 7
          [] c = "8" -> 8  [] c = "9" -> 9  [] c = "a" -> 10 [] c = "b" -> 11
          [] c = "c" -> 12 [] c = "d" -> 13 [] c = "e" -> 14 [] c = "f" -> 15]

\* n characters '0'.
Zeros(n) == [k \in 1..n |-> "0"]

RECURSIVE RL(_)
\* Long strings are held in the state run-length encoded, as a sequence of
\* <<character, count>>; RL and UnRL are inverse to each other, so two
\* strings are equal iff their encodings are.
RL(s) ==
    IF s = <<>> THEN <<>>
    ELSE LET n == CHOOSE m \in 1..Len(s) :
                     /\ \A k \in 1..m : s[k] = s[1]
                     /\ (m = Len(s) \/ s[m + 1] # s[1])
         IN  <<<<s[1], n>>>> \o RL(SubSeq(s, n + 1, Len(s)))

RECURSIVE UnRL(_)
UnRL(r) ==
    IF r = <<>> THEN <<>>
    ELSE [k \in 1..r[1][2] |-> r[1][1]] \o UnRL(Tail(r))

\* JavaScript values that are a string, undefined or null.
Str(s) == [t |-> "string", s |-> RL(s)]
Undefined == [t |-> "undefined", s |-> <<>>]
Null == [t |-> "null", s |-> <<>>]

\* Truthiness of such a value: only a non-empty string is truthy.
Truthy(v) == v.t = "string" /\ v.s # <<>>

\* String.prototype.slice(from, to) for 0 <= from, to: both ends are clamped
\* to the length.
Slice(s, from, to) ==
    LET hi == IF to < Len(s) THEN to ELSE Len(s)
    IN  IF from < hi THEN SubSeq(s, from + 1, hi) ELSE <<>>

----------------------------------------------------------------------------
(* SourceMap.buildPCToInstructionIndices                                    *)

\* Bounds of the inputs.
MaxBytes == 3
\* Hex digits the input bytecodes are drawn from: they make the bytes 0x00,
\* 0x01, 0x06, 0x10, 0x11, 0x16 (length 1) and 0x60 PUSH1, 0x61 PUSH2,
\* 0x66 PUSH7.
PCNibbles == {"0", "1", "6"}

\* Buffer.from(bytecode, 'hex'): one byte per pair of hex digits.
HexDecode(hex) ==
    [k \in 1..(Len(hex) \div 2) |-> 16 * HexVal[hex[2 * k - 1]] + HexVal[hex[2 * k]]]

\* bytes[pc] of a Uint8Array: <<b>>, or <<>> (undefined) past its end.
ByteAt(bytes, pc) ==
    IF pc + 1 \in DOMAIN bytes THEN <<bytes[pc + 1]>> ELSE <<>>

\* instructionLength: undefined compares false with everything, so it has
\* length 1.
instructionLength(instruction) ==
    IF instruction # <<>> /\ instruction[1] >= 96 /\ instruction[1] <= 127
    THEN instruction[1] - 96 + 2
    ELSE 1

RECURSIVE WalkFrom(_, _, _, _, _)
\* The for loop of buildPCToInstructionIndices, from (pc, i), with loop
\* bound `bound`.
WalkFrom(bound, bytes, pc, i, table) ==
    IF pc < bound
    THEN WalkFrom(bound, bytes, pc + instructionLength(ByteAt(bytes, pc)), i + 1,
                  table \cup {<<pc, i>>})
    ELSE table

\* The loop runs while pc < bytecode.length: the length of the hex STRING.
buildPCToInstructionIndices(hex) ==
    WalkFrom(Len(hex), HexDecode(hex), 0, 0, {})

\* SourceMap.pcToInstructionIndex: <<i>>, or <<>> for the thrown error.
pcToInstructionIndex(table, pc) ==
    IF \E e \in table : e[1] = pc
    THEN <<(CHOOSE e \in table : e[1] = pc)[2]>>
    ELSE <<>>

PCIdle ==
    /\ bytecode = <<>>
    /\ pcToInstructionIndices = {}
    /\ pcPhase = "idle"

PCStart ==
    /\ bytecode \in {h \in SeqsUpTo(PCNibbles, 2 * MaxBytes) : Len(h) % 2 = 0}
    /\ pcToInstructionIndices = {}
    /\ pcPhase = "input"

BuildPCToInstructionIndices ==
    /\ pcPhase = "input"
    /\ pcToInstructionIndices' = buildPCToInstructionIndices(bytecode)
    /\ pcPhase' = "built"
    /\ UNCHANGED <<bytecode, traceVars, srcVars, repVars, synVars, parseVars, crawlVars, tarVars>>
    /\ UNCHANGED <<icptVars>>

----------------------------------------------------------------------------
(* Trace.followInfo                                                         *)

\* Bound of the inputs: the number of struct logs of a trace.
MaxLogs == 3

CallOps == {"CALL", "CALLCODE", "DELEGATECALL", "STATICCALL"}
CreateOps == {"CREATE", "CREATE2"}

\* A 32-byte stack or memory word: 64 hex digits (held run-length encoded).
WordOf(tail) == RL(Zeros(64 - Len(tail)) \o tail)
\* The stack word holding the small number n < 256.
NumWord(n) == WordOf(<<CHOOSE c \in DOMAIN HexVal : HexVal[c] = n \div 16,
                       CHOOSE c \in DOMAIN HexVal : HexVal[c] = n % 16>>)
\* Two 20-byte addresses, as 40 hex digits.
AddrA == Zeros(38) \o <<"a", "a">>
AddrB == Zeros(38) \o <<"b", "b">>
AddrC == Zeros(38) \o <<"c", "c">>
\* One word of memory holding init code: bytes 0x60 0x01 0x00 ... at offset 0.
MemWord == RL(<<"6", "0", "0", "1">> \o Zeros(60))

\* The struct logs a trace is made of.  A CALL-family log has the callee in
\* the second word from the top of its stack; a CREATE-family log has value,
\* offset and length on top of its stack (top first) and the init code in
\* memory; any other opcode is represented by STOP.
LogShapes ==
    {[op |-> "CALL", stack |-> <<WordOf(AddrA), NumWord(0)>>, memory |-> <<>>],
     [op |-> "DELEGATECALL", stack |-> <<WordOf(AddrB), NumWord(0)>>, memory |-> <<>>],
     [op |-> "CREATE", stack |-> <<NumWord(2), NumWord(0), NumWord(0)>>, memory |-> <<MemWord>>],
     [op |-> "CREATE", stack |-> <<NumWord(0), NumWord(0), NumWord(0)>>, memory |-> <<MemWord>>],
     [op |-> "CREATE2", stack |-> <<NumWord(1), NumWord(33), NumWord(0)>>, memory |-> <<MemWord>>],
     [op |-> "STOP", stack |-> <<>>, memory |-> <<>>]}

StructLog(shape, depth) ==
    [op |-> shape.op, stack |-> shape.stack, memory |-> shape.memory, depth |-> depth]

\* log.stack and log.memory as arrays of strings.
StackOf(log) == [k \in DOMAIN log.stack |-> UnRL(log.stack[k])]
MemoryOf(log) == [k \in DOMAIN log.memory |-> UnRL(log.memory[k])]

RECURSIVE TracesOfLen(_)
\* The traces of n struct logs an EVM produces: the first log has depth 1 and
\* the depth changes by at most one from a log to the next.
TracesOfLen(n) ==
    IF n = 0 THEN {<<>>}
    ELSE IF n = 1 THEN {<<StructLog(sh, 1)>> : sh \in LogShapes}
    ELSE UNION {{Append(t, StructLog(sh, d)) :
                    sh \in LogShapes,
                    d \in {t[n - 1].depth - 1, t[n - 1].depth, t[n - 1].depth + 1} \ {0}} :
                t \in TracesOfLen(n - 1)}

Traces == UNION {TracesOfLen(n) : n \in 0..MaxLogs}

\* nthStackBack(stack, offset): stack[stack.length - offset - 1], as a
\* sequence of at most one element (empty for undefined).
nthStackBack(stack, offset) ==
    IF Len(stack) - offset \in DOMAIN stack THEN <<stack[Len(stack) - offset]>> ELSE <<>>

\* parseAddress(arg): '0x' + arg?.slice(24).
parseAddress(arg) ==
    IF arg = <<>>
    THEN Str(<<"0", "x", "u", "n", "d", "e", "f", "i", "n", "e", "d">>)
    ELSE Str(<<"0", "x">> \o Slice(arg[1], 24, Len(arg[1])))

RECURSIVE HexToNat(_)
HexToNat(s) ==
    IF s = <<>> THEN 0
    ELSE 16 * HexToNat(SubSeq(s, 1, Len(s) - 1)) + HexVal[s[Len(s)]]

\* Number(parseUint(arg)) for a defined word: BigInt('0x' + arg).
parseUint(arg) == HexToNat(arg[1])

RECURSIVE Join(_)
\* memory.join('')
Join(words) == IF words = <<>> THEN <<>> ELSE Head(words) \o Join(Tail(words))

\* The frame objects of followInfo's stack: {address} or {bytecode}.
AddressFrame(a) == [address |-> a, bytecode |-> Undefined]
BytecodeFrame(b) == [address |-> Undefined, bytecode |-> b]

\* The bytecode followInfo gives the frame pushed by a CREATE or CREATE2 log.
CreatedBytecode(log) ==
    LET offset == parseUint(nthStackBack(StackOf(log), 1))
        length == parseUint(nthStackBack(StackOf(log), 2))
    IN  Slice(Join(MemoryOf(log)), 2 * offset, 2 * (offset + length))

\* The yield of followInfo: the tag comes from the top frame; a top frame
\* whose bytecode is falsy yields its address.
Tagged(top) ==
    IF Truthy(top.bytecode)
    THEN [tag |-> "bytecode", value |-> top.bytecode]
    ELSE [tag |-> "address", value |-> top.address]

\* pre and post of one iteration: post.depth is the depth of the next log,
\* and of the log itself when it is the last one.
PreDepth == structLogs[followIdx].depth
PostDepth ==
    IF followIdx + 1 \in DOMAIN structLogs
    THEN structLogs[followIdx + 1].depth
    ELSE structLogs[followIdx].depth

TraceIdle ==
    /\ txTo = Undefined
    /\ structLogs = <<>>
    /\ followIdx = 0
    /\ frames = <<>>
    /\ taggedLogs = <<>>
    /\ followState = "idle"

\* followInfo is entered with a trace and a stack holding the frame of tx.to.
TraceStart ==
    /\ txTo \in {Str(<<"0", "x">> \o AddrB), Null}
    /\ structLogs \in Traces
    /\ followIdx = 1
    /\ frames = <<AddressFrame(txTo)>>
    /\ taggedLogs = <<>>
    /\ followState = "running"

\* An iteration can start: there is a log left.  (The stack is never empty
\* here: the depth never falls below the first log's, see Traces.)
CanIterate ==
    /\ followState = "running"
    /\ followIdx \in DOMAIN structLogs

\* One iteration on a CALL-family log.
FollowCall ==
    /\ CanIterate
    /\ structLogs[followIdx].op \in CallOps
    /\ taggedLogs' = Append(taggedLogs, Tagged(frames[Len(frames)]))
    /\ frames' = IF PostDepth = PreDepth + 1
                 THEN Append(frames, AddressFrame(
                          parseAddress(nthStackBack(StackOf(structLogs[followIdx]), 1))))
                 ELSE frames
    /\ followIdx' = followIdx + 1
    /\ UNCHANGED <<txTo, structLogs, followState, pcVars, srcVars, repVars, synVars, parseVars>>
    /\ UNCHANGED <<crawlVars, tarVars, icptVars>>

\* One iteration on a CREATE or CREATE2 log.
FollowCreate ==
    /\ CanIterate
    /\ structLogs[followIdx].op \in CreateOps
    /\ taggedLogs' = Append(taggedLogs, Tagged(frames[Len(frames)]))
    /\ IF PostDepth = PreDepth + 1
       THEN /\ frames' = Append(frames,
                            BytecodeFrame(Str(CreatedBytecode(structLogs[followIdx]))))
            /\ followIdx' = followIdx + 1
            /\ UNCHANGED followState
       ELSE /\ followState' = "fault"
            /\ UNCHANGED <<frames, followIdx>>
    /\ UNCHANGED <<txTo, structLogs, pcVars, srcVars, repVars, synVars, parseVars, crawlVars>>
    /\ UNCHANGED <<tarVars, icptVars>>

\* A variant of NoDeeper that wants the depth to fall.
NoDeeperStrict(post, pre) == post < pre

\* post.depth <= pre.depth, assumed after any other opcode.
NoDeeper(post, pre) == post <= pre

\* One iteration on any other opcode.
FollowOther ==
    /\ CanIterate
    /\ structLogs[followIdx].op \notin CallOps \cup CreateOps
    /\ taggedLogs' = Append(taggedLogs, Tagged(frames[Len(frames)]))
    /\ IF NoDeeper(PostDepth, PreDepth)
       THEN /\ frames' = IF PostDepth < PreDepth
                         THEN SubSeq(frames, 1, Len(frames) - 1)
                         ELSE frames
            /\ followIdx' = followIdx + 1
            /\ UNCHANGED followState
       ELSE /\ followState' = "fault"
            /\ UNCHANGED <<frames, followIdx>>
    /\ UNCHANGED <<txTo, structLogs, pcVars, srcVars, repVars, synVars, parseVars, crawlVars>>
    /\ UNCHANGED <<tarVars, icptVars>>

\* The loop ends after the last log.
FollowEnd ==
    /\ followState = "running"
    /\ followIdx = Len(structLogs) + 1
    /\ followState' = "done"
    /\ UNCHANGED <<txTo, structLogs, followIdx, frames, taggedLogs, pcVars, srcVars, repVars, synVars>>
    /\ UNCHANGED <<parseVars, crawlVars, tarVars, icptVars>>

----------------------------------------------------------------------------
(* Sources                                                                  *)

\* A CompilerSource: its path, its input.content and its output.id.  A path
\* of the compiler is a one-element sequence <<name>>; names hold no ':'.
CompilerSource(path, content, id) == [path |-> path, content |-> content, id |-> id]

\* `${src.path}:${i}`
DisambiguatedPath(path, i) == path \o <<":", i>>

\* A variant of SameContent that takes any stored source for a match.
SameContentAlways(existing, src) == TRUE

\* existing.input.content == src.input.content
SameContent(existing, src) == existing.content = src.content

RECURSIVE SearchFrom(_, _, _, _)
\* The search of the remappings `${src.path}:${i}`, i < unique, from i on:
\* "found" at i, "none", or "fault" at i when p2cs[maybePath] is undefined
\* and reading its .input throws.
SearchFrom(p2cs, uniq, src, i) ==
    IF i >= uniq THEN [kind |-> "none", i |-> i]
    ELSE LET maybePath == DisambiguatedPath(src.path, i)
         IN  IF maybePath \notin DOMAIN p2cs THEN [kind |-> "fault", i |-> i]
             ELSE IF SameContent(p2cs[maybePath], src) THEN [kind |-> "found", i |-> i]
             ELSE SearchFrom(p2cs, uniq, src, i + 1)

\* One iteration of the loop of indexBytecodeToSourceMap, on st = [si2p,
\* p2cs, unique, fault].
IndexSource(st, src) ==
    IF src.path \notin DOMAIN st.p2cs
    THEN [st EXCEPT !.si2p = (src.id :> src.path) @@ @,
                    !.p2cs = (src.path :> src) @@ @]
    ELSE IF SameContent(st.p2cs[src.path], src)
    THEN [st EXCEPT !.si2p = (src.id :> src.path) @@ @]
    ELSE LET found == SearchFrom(st.p2cs, st.unique, src, 0)
         IN  CASE found.kind = "fault" -> [st EXCEPT !.fault = TRUE]
               [] found.kind = "found" ->
                    [st EXCEPT !.si2p = (src.id :> DisambiguatedPath(src.path, found.i)) @@ @]
               [] found.kind = "none" ->
                    LET path == DisambiguatedPath(src.path, st.unique)
                    IN  [st EXCEPT !.si2p = (src.id :> path) @@ @,
                                   !.p2cs = (path :> [src EXCEPT !.path = path]) @@ @,
                                   !.unique = @ + 1]

RECURSIVE IndexSources(_, _)
IndexSources(st, srcs) ==
    IF srcs = <<>> \/ st.fault THEN st
    ELSE IndexSources(IndexSource(st, Head(srcs)), Tail(srcs))

\* compilerSources of the SourceMap object sm.
CompilerSourcesOf(arts, sm) == arts[sm].compilerSources

\* b2s[bytecode], as a sequence of at most one SourceMap.
SourceMapUnder(b2s, bc) ==
    IF \E n \in DOMAIN b2s : b2s[n].bytecode = bc
    THEN <<b2s[CHOOSE n \in DOMAIN b2s : b2s[n].bytecode = bc].sourceMap>>
    ELSE <<>>

\* indexBytecodeToSourceMap(bytecode) on the Sources S = [b2s, bi2p, p2cs,
\* unique]: the Sources after it, with fault = TRUE when it threw.
indexBytecodeToSourceMap(arts, S, bc) ==
    LET si2p0 == IF bc \in DOMAIN S.bi2p THEN S.bi2p[bc] ELSE <<>>
        st == IndexSources([si2p |-> si2p0, p2cs |-> S.p2cs, unique |-> S.unique,
                            fault |-> FALSE],
                           CompilerSourcesOf(arts, SourceMapUnder(S.b2s, bc)[1]))
    IN  [b2s |-> S.b2s,
         bi2p |-> (bc :> st.si2p) @@ S.bi2p,
         p2cs |-> st.p2cs,
         unique |-> st.unique,
         fault |-> st.fault]

\* A variant of insertAndIndexBytecodeAndSourceMap that caches the SourceMap
\* of the first key instead of the one passed.
insertAndIndexFirstSourceMap(arts, S, bc, sm) ==
    indexBytecodeToSourceMap(arts,
        [S EXCEPT !.b2s = Append(@, [bytecode |-> bc, sourceMap |-> S.b2s[1].sourceMap])], bc)

\* insertAndIndexBytecodeAndSourceMap(bytecode, sourceMap)
insertAndIndexBytecodeAndSourceMap(arts, S, bc, sm) ==
    indexBytecodeToSourceMap(arts,
        [S EXCEPT !.b2s = Append(@, [bytecode |-> bc, sourceMap |-> sm])], bc)

\* The same-length rule: no position where the bytecodes differ and the known
\* one is not '0'.
SameLengthAccepts(b, k) ==
    ~ \E i \in 1..Len(b) : b[i] # k[i] /\ k[i] # "0"

PrefixFloor == 42
\* A variant of the prefix rule without the floor on the known length.
PrefixAcceptsNoFloor(b, k) ==
    /\ Len(b) > Len(k)
    /\ Slice(b, 0, Len(k)) = k

\* The prefix rule.
PrefixAccepts(b, k) ==
    /\ Len(b) > Len(k)
    /\ Len(k) > PrefixFloor
    /\ Slice(b, 0, Len(k)) = k

\* The body of the for-in loop of bytecodeToSourceMap for one known key.
FuzzyAccepts(b, k) ==
    IF Len(b) = Len(k) THEN SameLengthAccepts(b, k) ELSE PrefixAccepts(b, k)

RECURSIVE FirstFuzzy(_, _, _)
\* The first key, in key order from position n, the loop accepts; 0 if none.
FirstFuzzy(b2s, bc, n) ==
    IF n > Len(b2s) THEN 0
    ELSE IF FuzzyAccepts(UnRL(bc), UnRL(b2s[n].bytecode)) THEN n
    ELSE FirstFuzzy(b2s, bc, n + 1)

\* What bytecodeToSourceMap(bytecode) finds: a direct hit, a fuzzy hit, or
\* nothing (it throws `No source map`).
Resolve(b2s, bc) ==
    IF SourceMapUnder(b2s, bc) # <<>>
    THEN [how |-> "direct", sourceMap |-> SourceMapUnder(b2s, bc)[1]]
    ELSE LET n == FirstFuzzy(b2s, bc, 1)
         IN  IF n = 0 THEN [how |-> "NoSourceMap", sourceMap |-> 0]
             ELSE [how |-> "fuzzy", sourceMap |-> b2s[n].sourceMap]

\* compilerSourcePath(bytecode, sourceIndex): <<path>>, or <<>> when it
\* throws.
compilerSourcePath(bi2p, bc, sourceIndex) ==
    IF bc \in DOMAIN bi2p /\ sourceIndex \in DOMAIN bi2p[bc]
    THEN <<bi2p[bc][sourceIndex]>>
    ELSE <<>>

\* ---- the inputs

\* Known (compiled) bytecodes: a short one with a zero digit, one of 43
\* digits (above the floor of the prefix rule) and one of exactly 42.
ShortCode == RL(<<"a", "0">>)
LongCode == RL(<<"a", "0">> \o [k \in 1..41 |-> "c"])
FloorCode == RL(<<"b">> \o Zeros(41))
KnownCodes == {ShortCode, LongCode, FloorCode}

\* Deployed bytecodes looked up: immutables patched over the zero digit, a
\* metadata suffix, both, and a suffix on the 42-digit code.
Deployed ==
    {RL(<<"a", "b">>),
     RL(<<"a", "5">> \o [k \in 1..41 |-> "c"]),
     RL(<<"a", "0">> \o [k \in 1..41 |-> "c"] \o <<"d", "d">>),
     RL(<<"a", "5">> \o [k \in 1..41 |-> "c"] \o <<"d", "d">>),
     RL(<<"b">> \o Zeros(41) \o <<"d", "d">>)}

\* The compilerSources arrays of the compilations: A.sol in two versions,
\* alone or with B.sol in two versions.
SourceArrays ==
    {<<CompilerSource(<<"A.sol">>, "c1", 0)>>,
     <<CompilerSource(<<"A.sol">>, "c2", 0)>>,
     <<CompilerSource(<<"A.sol">>, "c1", 0), CompilerSource(<<"B.sol">>, "c1", 1)>>,
     <<CompilerSource(<<"A.sol">>, "c2", 0), CompilerSource(<<"B.sol">>, "c2", 1)>>}

\* The number of bytecodes the constructor is given.
MaxKnown == 2

RECURSIVE ArtifactLists(_)
\* The lists of n artifacts with distinct bytecodes.
ArtifactLists(n) ==
    IF n = 0 THEN {<<>>}
    ELSE UNION {{Append(l, [bytecode |-> bc, compilerSources |-> cs]) :
                    bc \in KnownCodes \ {l[k].bytecode : k \in DOMAIN l},
                    cs \in SourceArrays} :
                l \in ArtifactLists(n - 1)}

SourcesIdle ==
    /\ artifacts = <<>>
    /\ bytecodeToSourceMaps = <<>>
    /\ bytecodeAndIndexToPath = <<>>
    /\ pathToCompilerSources = <<>>
    /\ unique = 0
    /\ sourcesState = "idle"
    /\ ctorNext = 0
    /\ lastLookup = [bytecode |-> <<>>, how |-> "none", sourceMap |-> 0]
    /\ fuzzyReturned = {}

\* new Sources(bytecodeToSourceMaps), before initPathsAndPathToCompilerSources.
SourcesStart ==
    /\ artifacts \in UNION {ArtifactLists(n) : n \in 1..MaxKnown}
    /\ bytecodeToSourceMaps =
          [n \in DOMAIN artifacts |-> [bytecode |-> artifacts[n].bytecode, sourceMap |-> n]]
    /\ bytecodeAndIndexToPath = <<>>
    /\ pathToCompilerSources = <<>>
    /\ unique = 0
    /\ sourcesState = "constructing"
    /\ ctorNext = 1
    /\ lastLookup = [bytecode |-> <<>>, how |-> "none", sourceMap |-> 0]
    /\ fuzzyReturned = {}

TheSources ==
    [b2s |-> bytecodeToSourceMaps, bi2p |-> bytecodeAndIndexToPath,
     p2cs |-> pathToCompilerSources, unique |-> unique]

\* One iteration of initPathsAndPathToCompilerSources: index the next key.
\* A throw leaves the constructor, and no Sources exists.
InitPathsStep ==
    /\ sourcesState = "constructing"
    /\ ctorNext \in DOMAIN bytecodeToSourceMaps
    /\ LET S == indexBytecodeToSourceMap(artifacts, TheSources,
                                         bytecodeToSourceMaps[ctorNext].bytecode)
       IN  /\ bytecodeAndIndexToPath' = S.bi2p
           /\ pathToCompilerSources' = S.p2cs
           /\ unique' = S.unique
           /\ sourcesState' = IF S.fault THEN "fault" ELSE "constructing"
    /\ ctorNext' = ctorNext + 1
    /\ UNCHANGED <<artifacts, bytecodeToSourceMaps, lastLookup, fuzzyReturned>>
    /\ UNCHANGED <<pcVars, traceVars, repVars, synVars, parseVars, crawlVars, tarVars, icptVars>>

\* The constructor returns.
ConstructorReturns ==
    /\ sourcesState = "constructing"
    /\ ctorNext = Len(bytecodeToSourceMaps) + 1
    /\ sourcesState' = "ready"
    /\ UNCHANGED <<artifacts, bytecodeToSourceMaps, bytecodeAndIndexToPath,
                   pathToCompilerSources, unique, ctorNext, lastLookup, fuzzyReturned>>
    /\ UNCHANGED <<pcVars, traceVars, repVars, synVars, parseVars, crawlVars, tarVars, icptVars>>

\* A call bytecodeToSourceMap(bc), with its caching.
BytecodeToSourceMap(bc) ==
    /\ sourcesState = "ready"
    /\ LET r == Resolve(bytecodeToSourceMaps, bc)
       IN  IF r.how = "fuzzy"
           THEN LET S == insertAndIndexBytecodeAndSourceMap(artifacts, TheSources, bc,
                                                           r.sourceMap)
                IN  /\ bytecodeToSourceMaps' = S.b2s
                    /\ bytecodeAndIndexToPath' = S.bi2p
                    /\ pathToCompilerSources' = S.p2cs
                    /\ unique' = S.unique
                    /\ lastLookup' = [bytecode |-> bc,
                                      how |-> IF S.fault THEN "TypeError" ELSE "fuzzy",
                                      sourceMap |-> IF S.fault THEN 0 ELSE r.sourceMap]
                    /\ fuzzyReturned' =
                          IF S.fault THEN fuzzyReturned
                          ELSE fuzzyReturned \cup
                                   {[bytecode |-> bc, sourceMap |-> r.sourceMap]}
           ELSE /\ lastLookup' = [bytecode |-> bc, how |-> r.how, sourceMap |-> r.sourceMap]
                /\ UNCHANGED <<bytecodeToSourceMaps, bytecodeAndIndexToPath,
                               pathToCompilerSources, unique, fuzzyReturned>>
    /\ UNCHANGED <<artifacts, sourcesState, ctorNext>>
    /\ UNCHANGED <<pcVars, traceVars, repVars, synVars, parseVars, crawlVars, tarVars, icptVars>>

LookupAny == \E bc \in Deployed \cup {LongCode} : BytecodeToSourceMap(bc)

----------------------------------------------------------------------------
(* Coverage: syntax tables                                                  *)

\* A Feature: {l: id}, {b: [id, alt]}, {f: id} or {s: id}.
LineFeature(line) == [kind |-> "l", id |-> line, alt |-> 0]
BranchFeature(id, alt) == [kind |-> "b", id |-> id, alt |-> alt]
FnFeature(id) == [kind |-> "f", id |-> id, alt |-> 0]
StatementFeature(id) == [kind |-> "s", id |-> id, alt |-> 0]

RECURSIVE PositionsUpTo(_, _)
\* offsetToPosition[0..n] of buildOffsetToPosition, as a sequence whose
\* element k + 1 is the position of offset k.
PositionsUpTo(content, n) ==
    IF n = 0 THEN <<[line |-> 1, column |-> 0]>>
    ELSE LET before == PositionsUpTo(content, n - 1)
             location == before[n]
             isNewline == content[n] = "\n"
         IN  Append(before, [line |-> location.line + (IF isNewline THEN 1 ELSE 0),
                             column |-> IF isNewline THEN 0 ELSE location.column + 1])

\* buildOffsetToPosition(rawSource, features): the position of offset i.
buildOffsetToPosition(content) ==
    [i \in 0..Len(content) |-> PositionsUpTo(content, Len(content))[i + 1]]

\* The features buildOffsetToPosition installs: features[i] = [{l: line}],
\* with `line` the line it has just computed for offset i + 1.
LineLayer(content) ==
    [i \in 0..(Len(content) - 1) |-> <<LineFeature(buildOffsetToPosition(content)[i + 1].line)>>]

\* input.content.split('\n').length
LineCount(content) == 1 + Cardinality({i \in DOMAIN content : content[i] = "\n"})

\* The AST of a source is given by the insert calls its walk makes, in
\* order: insertFn(node), insertStatement(node, skip), or insertBranch(node,
\* type, alternatives), each node with src = s:l.
FnNode(s, l) == [call |-> "fn", s |-> s, l |-> l, skip |-> FALSE, alts |-> <<>>]
StatementNode(s, l, skip) == [call |-> "s", s |-> s, l |-> l, skip |-> skip, alts |-> <<>>]
BranchNode(s, l, alts) == [call |-> "b", s |-> s, l |-> l, skip |-> FALSE, alts |-> alts]

\* fetchLocation(ast, feature): features[s].push(feature) if l > 0.
Install(features, s, l, feature) ==
    IF l > 0 THEN [features EXCEPT ![s] = Append(@, feature)] ELSE features

RECURSIVE InstallAlts(_, _, _, _)
\* alternatives.map((a, i) => fetchLocation(a, {b: [branchId, i]})), from
\* alternative number i (0-based) on.
InstallAlts(features, alts, branchId, i) ==
    IF i >= Len(alts) THEN features
    ELSE InstallAlts(Install(features, alts[i + 1].s, alts[i + 1].l, BranchFeature(branchId, i)),
                     alts, branchId, i + 1)

\* One insert call, on syn = [features, branchMap, fnMap, statementMap]; a
\* map holds, per id, what freshReport and filteredReport read of it.
InsertNode(syn, node) ==
    CASE node.call = "b" ->
            LET branchId == Len(syn.branchMap)
            IN  [syn EXCEPT !.features = InstallAlts(@, node.alts, branchId, 0),
                            !.branchMap = Append(@, [locations |-> Len(node.alts)])]
      [] node.call = "fn" ->
            LET fnId == Len(syn.fnMap)
            IN  [syn EXCEPT !.features = Install(@, node.s, node.l, FnFeature(fnId)),
                            !.fnMap = Append(@, [skip |-> FALSE])]
      [] node.call = "s" ->
            LET statementId == Len(syn.statementMap)
            IN  [syn EXCEPT !.features = Install(@, node.s, node.l, StatementFeature(statementId)),
                            !.statementMap = Append(@, [skip |-> node.skip])]

RECURSIVE InsertNodes(_, _)
InsertNodes(syn, nodes) ==
    IF nodes = <<>> THEN syn ELSE InsertNodes(InsertNode(syn, Head(nodes)), Tail(nodes))

\* The SyntaxTable of one source.  Ids are 0-based: id k is element k + 1 of
\* its map.
SyntaxTable(src) ==
    LET syn == InsertNodes([features |-> LineLayer(src.content), branchMap |-> <<>>,
                            fnMap |-> <<>>, statementMap |-> <<>>], src.ast)
    IN  [features |-> syn.features, lines |-> LineCount(src.content),
         branchMap |-> syn.branchMap, fnMap |-> syn.fnMap, statementMap |-> syn.statementMap]

\* Coverage.buildPathToSyntax(sources)
buildPathToSyntax(p2cs) == [path \in DOMAIN p2cs |-> SyntaxTable(p2cs[path])]

----------------------------------------------------------------------------
(* Coverage.freshReport and Coverage.report                                 *)

\* The counters of one path.  l is Array(lines.length).fill(0): indices
\* 0..lines.length-1; an index incremented without being there holds NaN
\* from then on, and lNaN is the set of these indices.
FreshStats(syntax) ==
    [l |-> [n \in 0..(syntax.lines - 1) |-> 0],
     lNaN |-> {},
     b |-> [id \in 0..(Len(syntax.branchMap) - 1) |->
               [alt \in 0..(syntax.branchMap[id + 1].locations - 1) |-> 0]],
     f |-> [id \in 0..(Len(syntax.fnMap) - 1) |-> 0],
     s |-> [id \in 0..(Len(syntax.statementMap) - 1) |-> 0]]

freshReport(p2s) == [path \in DOMAIN p2s |-> FreshStats(p2s[path])]

\* stats.l[line]++
IncrementLine(stats, line) ==
    IF line \in DOMAIN stats.l /\ line \notin stats.lNaN
    THEN [stats EXCEPT !.l[line] = @ + 1]
    ELSE [stats EXCEPT !.lNaN = @ \cup {line}]

\* A variant of BranchUnset that takes every branch feature for the first.
BranchUnsetAlways(branch) == TRUE

\* !branch for the variable branch of report, held as <<>> (undefined) or
\* <<[id, alt]>>: an array is truthy.
BranchUnset(branch) == branch = <<>>

\* !fn for the variable fn of report, held as <<>> (undefined) or <<id>>:
\* undefined and 0 are falsy.
FnUnset(fn) == fn = <<>> \/ fn[1] = 0

\* The body of `for (const feature of syntax.features[i])`, on acc = [stats,
\* line, branch, fn]; line, branch and fn are <<>> while undefined.
CountFeature(acc, feature, op) ==
    CASE feature.kind = "l" ->
            IF acc.line # <<feature.id>>
            THEN [acc EXCEPT !.stats = IncrementLine(@, feature.id), !.line = <<feature.id>>]
            ELSE acc
      [] feature.kind = "b" ->
            IF BranchUnset(acc.branch)
            THEN [acc EXCEPT !.stats.b[feature.id][feature.alt] = @ + 1,
                             !.branch = <<<<feature.id, feature.alt>>>>]
            ELSE acc
      [] feature.kind = "f" ->
            IF op # "JUMPDEST" THEN acc
            ELSE IF FnUnset(acc.fn)
            THEN [acc EXCEPT !.stats.f[feature.id] = @ + 1, !.fn = <<feature.id>>]
            ELSE acc
      [] feature.kind = "s" ->
            [acc EXCEPT !.stats.s[feature.id] = @ + 1]

RECURSIVE CountFeatures(_, _, _)
CountFeatures(acc, features, op) ==
    IF features = <<>> THEN acc
    ELSE CountFeatures(CountFeature(acc, Head(features), op), Tail(features), op)

\* The names of the compiler's generated sources: those that start with '#'.
GeneratedNames == {"#utility.yul"}

\* path.startsWith('#')
IsGenerated(path) == path[1] \in GeneratedNames

RECURSIVE ScanBytes(_, _, _, _, _, _)
\* The loop `for (let i = range.start; i < range.start + range.length; i++)`
\* from i on: [acc, threw]; it throws when features[i] is missing on a path
\* that is not a generated source.
ScanBytes(acc, syntax, path, i, end, op) ==
    IF i >= end THEN [acc |-> acc, threw |-> FALSE]
    ELSE IF i \notin DOMAIN syntax.features
    THEN [acc |-> acc, threw |-> ~IsGenerated(path)]
    ELSE ScanBytes(CountFeatures(acc, syntax.features[i], op), syntax, path, i + 1, end, op)

\* toLowerCase on the characters addresses are made of.
LowerChar(c) ==
    CASE c = "A" -> "a" [] c = "B" -> "b" [] c = "C" -> "c"
      [] c = "D" -> "d" [] c = "E" -> "e" [] c = "F" -> "f"
      [] c = "X" -> "x" [] c = "N" -> "n" [] c = "U" -> "u"
      [] c = "L" -> "l" [] OTHER -> c
ToLowerCase(str) == [k \in DOMAIN str |-> LowerChar(str[k])]

\* The property key a value makes: the string itself, 'null', 'undefined'.
PropertyKey(v) ==
    CASE v.t = "string" -> v.s
      [] v.t = "null" -> RL(<<"n", "u", "l", "l">>)
      [] v.t = "undefined" -> RL(<<"u", "n", "d", "e", "f", "i", "n", "e", "d">>)

\* Sources.addressToBytecode(address): <<bytecode>>, or <<>> when it throws.
\* The key is address && address.toLowerCase().
addressToBytecode(a2b, address) ==
    LET key == IF Truthy(address) THEN Str(ToLowerCase(UnRL(address.s))) ELSE address
    IN  IF PropertyKey(key) \in DOMAIN a2b THEN <<a2b[PropertyKey(key)]>> ELSE <<>>

\* A variant of AddressKey that keeps the address as it is given.
AddressKeyAsGiven(address) == address

\* address.toLowerCase(), the key loadAddresses stores under.
AddressKey(address) == RL(ToLowerCase(UnRL(address)))

RECURSIVE LoadKeys(_, _, _)
\* The loop of loadAddresses over the keys of m left, in their order.
LoadKeys(a2b, m, keys) ==
    IF keys = <<>> THEN a2b
    ELSE LoadKeys((AddressKey(Head(keys)) :> m[Head(keys)]) @@ a2b, m, Tail(keys))

\* Sources.loadAddresses(m), m being given with the order of its keys.
loadAddresses(a2b, m, keys) == LoadKeys(a2b, m, keys)

\* SourceMap.pcToRange(pc): <<range>>, or <<>> when it throws.  The tables
\* of a SourceMap are given composed, as ranges: pc -> SourceRange.
pcToRange(arts, sm, pc) ==
    IF pc \in DOMAIN arts[sm].ranges THEN <<arts[sm].ranges[pc]>> ELSE <<>>

SourceRange(start, length, index) == [start |-> start, length |-> length, index |-> index]

\* A variant of Attributable that takes every range.
AttributableAlways(range) == TRUE

\* range.length > 0
Attributable(range) == range.length > 0

\* The body of the loop of Coverage.report for one log, on the Sources S and
\* the report R: [S, R, threw].
ReportLog(arts, a2b, p2s, S, R, log) ==
    LET codes == IF Truthy(log.bytecode) THEN <<log.bytecode.s>>
                 ELSE addressToBytecode(a2b, log.address)
    IN  IF codes = <<>> THEN [S |-> S, R |-> R, threw |-> TRUE]
        ELSE
        LET r == Resolve(S.b2s, codes[1])
            S1 == IF r.how = "fuzzy"
                  THEN insertAndIndexBytecodeAndSourceMap(arts, S, codes[1], r.sourceMap)
                  ELSE [b2s |-> S.b2s, bi2p |-> S.bi2p, p2cs |-> S.p2cs,
                        unique |-> S.unique, fault |-> FALSE]
            S2 == [b2s |-> S1.b2s, bi2p |-> S1.bi2p, p2cs |-> S1.p2cs, unique |-> S1.unique]
        IN  IF r.how = "NoSourceMap" \/ S1.fault THEN [S |-> S2, R |-> R, threw |-> TRUE]
            ELSE
            LET range == pcToRange(arts, r.sourceMap, log.pc)
            IN  IF range = <<>> THEN [S |-> S2, R |-> R, threw |-> TRUE]
                ELSE IF ~Attributable(range[1]) THEN [S |-> S2, R |-> R, threw |-> FALSE]
                ELSE
                LET path == compilerSourcePath(S2.bi2p, arts[r.sourceMap].bytecode,
                                               range[1].index)
                IN  IF path = <<>> THEN [S |-> S2, R |-> R, threw |-> TRUE]
                    ELSE
                    LET scan == ScanBytes([stats |-> R[path[1]], line |-> <<>>,
                                           branch |-> <<>>, fn |-> <<>>],
                                          p2s[path[1]], path[1], range[1].start,
                                          range[1].start + range[1].length, log.op)
                    IN  [S |-> S2,
                         R |-> [R EXCEPT ![path[1]] = scan.acc.stats],
                         threw |-> scan.threw]

RECURSIVE ReportLogs(_, _, _, _, _)
\* Coverage.report(logs, R) from the state st = [S, R, threw]: the loop stops
\* at the first log that throws.
ReportLogs(arts, a2b, p2s, st, logs) ==
    IF logs = <<>> \/ st.threw THEN st
    ELSE ReportLogs(arts, a2b, p2s,
                    ReportLog(arts, a2b, p2s, st.S, st.R, Head(logs)), Tail(logs))

RECURSIVE ConstructFrom(_, _, _)
\* The loop of initPathsAndPathToCompilerSources from key n on; fault = TRUE
\* in the result when it threw.
ConstructFrom(arts, S, n) ==
    IF n > Len(S.b2s) THEN [b2s |-> S.b2s, bi2p |-> S.bi2p, p2cs |-> S.p2cs,
                            unique |-> S.unique, fault |-> FALSE]
    ELSE LET S1 == indexBytecodeToSourceMap(arts, S, S.b2s[n].bytecode)
         IN  IF S1.fault THEN S1
             ELSE ConstructFrom(arts, [b2s |-> S1.b2s, bi2p |-> S1.bi2p, p2cs |-> S1.p2cs,
                                       unique |-> S1.unique], n + 1)

\* new Sources(bytecodeToSourceMaps) for the artifacts arts.
NewSources(arts) ==
    ConstructFrom(arts,
                  [b2s |-> [n \in DOMAIN arts |-> [bytecode |-> arts[n].bytecode,
                                                   sourceMap |-> n]],
                   bi2p |-> <<>>, p2cs |-> <<>>, unique |-> 0], 1)

\* ---- the inputs

\* A.sol: three bytes on line 1, a newline, one byte on line 2.
ContentA == <<"a", "b", "c", "\n", "d">>

\* Its walk: a function at byte 0, a statement and a two-way branch at bytes
\* 1 and 2, a second function at byte 2, a skipped statement at byte 4, and
\* a statement at byte 2.
AstA ==
    <<FnNode(0, 3), StatementNode(1, 1, FALSE),
      BranchNode(1, 2, <<[s |-> 1, l |-> 1], [s |-> 2, l |-> 1]>>),
      FnNode(2, 1), StatementNode(4, 1, TRUE), StatementNode(2, 1, FALSE)>>

SourceA == [path |-> <<"A.sol">>, content |-> ContentA, id |-> 0, ast |-> AstA]

\* The ranges of the one compiled contract, by pc: all of line 1, its second
\* byte, its third byte, the newline with line 2, the generated source, and
\* two instructions of no source ("0:0:-1" and "-1:-1:-1").
\* A generated source of two bytes with one function, and another A.sol,
\* of the second compiled contract.
SourceGenerated ==
    [path |-> <<"#utility.yul">>, content |-> <<"x", "y">>, id |-> 1, ast |-> <<FnNode(0, 1)>>]
SourceOtherA ==
    [path |-> <<"A.sol">>, content |-> <<"z">>, id |-> 0, ast |-> <<StatementNode(0, 1, FALSE)>>]

RangesA ==
    (0 :> SourceRange(0, 3, 0)) @@ (1 :> SourceRange(1, 1, 0)) @@
    (2 :> SourceRange(2, 1, 0)) @@ (3 :> SourceRange(3, 2, 0)) @@
    (4 :> SourceRange(0, 3, 1)) @@ (5 :> SourceRange(0, 0, -1)) @@
    (6 :> SourceRange(-1, -1, -1))

\* Two compiled contracts: the first over A.sol and the generated source,
\* the second over the other A.sol.
ReportArtifacts ==
    <<[bytecode |-> LongCode, compilerSources |-> <<SourceA, SourceGenerated>>,
       ranges |-> RangesA],
      [bytecode |-> ShortCode, compilerSources |-> <<SourceOtherA>>,
       ranges |-> (0 :> SourceRange(0, 1, 0))]>>

\* The deployed forms of the contract: an immutable patched over its zero
\* digit, and that with a metadata suffix.
PatchedCode == RL(<<"a", "5">> \o [k \in 1..41 |-> "c"])
SuffixedCode == RL(<<"a", "5">> \o [k \in 1..41 |-> "c"] \o <<"d", "d">>)

\* The address whose code was loaded, as the trace writes it.
LoadedAddress == <<"0", "x">> \o AddrA

BytecodeLog(bc, pc, op) == [bytecode |-> [t |-> "string", s |-> bc], address |-> Undefined,
                            pc |-> pc, op |-> op]
AddressLog(a, pc, op) == [bytecode |-> Undefined, address |-> Str(a), pc |-> pc, op |-> op]

\* The tagged logs a transaction is made of.
ReportLogShapes ==
    {BytecodeLog(LongCode, 0, "JUMPDEST"),
     BytecodeLog(LongCode, 0, "PUSH1"),
     BytecodeLog(PatchedCode, 1, "SSTORE"),
     BytecodeLog(SuffixedCode, 2, "JUMPDEST"),
     BytecodeLog(LongCode, 4, "JUMPDEST"),
     BytecodeLog(LongCode, 5, "JUMPDEST"),
     BytecodeLog(PatchedCode, 6, "PUSH1"),
     AddressLog(LoadedAddress, 3, "STOP")}

\* The number of logs of the two transactions together.
MaxReportLogs == 3

ReportIdle ==
    /\ addressToBytecodes = <<>>
    /\ pathToSyntax = <<>>
    /\ report = <<>>
    /\ logsA = <<>>
    /\ logsB = <<>>
    /\ reportPos = 0
    /\ reportState = "idle"
    /\ filtered = <<>>

\* A Sources over ReportArtifacts with one address loaded, Coverage.cover on
\* it, and a fresh report; two transactions to report.
ReportStart ==
    /\ artifacts = ReportArtifacts
    /\ LET S == NewSources(ReportArtifacts)
       IN  /\ bytecodeToSourceMaps = S.b2s
           /\ bytecodeAndIndexToPath = S.bi2p
           /\ pathToCompilerSources = S.p2cs
           /\ unique = S.unique
           /\ pathToSyntax = buildPathToSyntax(S.p2cs)
           /\ report = freshReport(buildPathToSyntax(S.p2cs))
    /\ sourcesState = "ready"
    /\ ctorNext = Len(ReportArtifacts) + 1
    /\ lastLookup = [bytecode |-> <<>>, how |-> "none", sourceMap |-> 0]
    /\ fuzzyReturned = {}
    /\ addressToBytecodes = (RL(LoadedAddress) :> LongCode)
    /\ \E logs \in SeqsUpTo(ReportLogShapes, MaxReportLogs) :
          \E k \in 0..Len(logs) :
             /\ logsA = SubSeq(logs, 1, k)
             /\ logsB = SubSeq(logs, k + 1, Len(logs))
    /\ reportPos = 0
    /\ reportState = "running"
    /\ filtered = <<>>

\* One iteration of the loop of report, over logsA and then over logsB.  A
\* throw leaves the call; what the iteration changed before it stays.
ReportNextLog ==
    /\ reportState = "running"
    /\ reportPos < Len(logsA \o logsB)
    /\ LET out == ReportLog(artifacts, addressToBytecodes, pathToSyntax, TheSources, report,
                            (logsA \o logsB)[reportPos + 1])
       IN  /\ bytecodeToSourceMaps' = out.S.b2s
           /\ bytecodeAndIndexToPath' = out.S.bi2p
           /\ pathToCompilerSources' = out.S.p2cs
           /\ unique' = out.S.unique
           /\ report' = out.R
           /\ reportPos' = IF out.threw THEN reportPos ELSE reportPos + 1
           /\ reportState' = IF out.threw THEN "failed" ELSE "running"
    /\ UNCHANGED <<artifacts, sourcesState, ctorNext, lastLookup, fuzzyReturned>>
    /\ UNCHANGED <<addressToBytecodes, pathToSyntax, logsA, logsB, filtered>>
    /\ UNCHANGED <<pcVars, traceVars, synVars, parseVars, crawlVars, tarVars, icptVars>>

\* The second call returns.
ReportReturns ==
    /\ reportState = "running"
    /\ reportPos = Len(logsA \o logsB)
    /\ reportState' = "done"
    /\ UNCHANGED <<addressToBytecodes, pathToSyntax, report, logsA, logsB, reportPos,
                   filtered>>
    /\ UNCHANGED <<pcVars, traceVars, srcVars, synVars, parseVars, crawlVars, tarVars, icptVars>>

\* path.includes(':')
IncludesColon(path) == \E k \in DOMAIN path : path[k] = ":"

\* A variant of significantFeature that does not look at skip.
significantFeatureNoSkip(syntax, f) == f.kind # "l"

\* significantFeature(f) of filteredReport.
significantFeature(syntax, f) ==
    CASE f.kind = "l" -> FALSE
      [] f.kind = "b" -> TRUE
      [] f.kind = "f" -> ~syntax.fnMap[f.id + 1].skip
      [] f.kind = "s" -> ~syntax.statementMap[f.id + 1].skip

\* statsEtc.l[n]: a number, NaN, or undefined when l has no index n.
LineValue(stats, n) ==
    IF n \in stats.lNaN THEN [is |-> "NaN", n |-> 0]
    ELSE IF n \in DOMAIN stats.l THEN [is |-> "number", n |-> stats.l[n]]
    ELSE [is |-> "undefined", n |-> 0]

RECURSIVE FilterLines(_, _, _, _)
\* syntax.features.reduce(...) of filteredReport from byte i on, l being the
\* object built so far.
FilterLines(syntax, stats, l, i) ==
    IF i \notin DOMAIN syntax.features THEN l
    ELSE LET fs == syntax.features[i]
             n == fs[1].id
         IN  FilterLines(syntax, stats,
                         IF \E k \in DOMAIN fs : significantFeature(syntax, fs[k])
                         THEN (n :> LineValue(stats, n)) @@ l
                         ELSE l,
                         i + 1)

\* Coverage.filteredReport(report)
filteredReport(p2s, R) ==
    [path \in {q \in DOMAIN R : ~IsGenerated(q) /\ ~IncludesColon(q)} |->
        [l |-> FilterLines(p2s[path], R[path], <<>>, 0),
         b |-> R[path].b, f |-> R[path].f, s |-> R[path].s]]

\* filteredReport(report), as writeReport calls it on the accumulated
\* report.  It builds new objects and writes to none of the report's.
FilterReport ==
    /\ reportState \in {"done", "failed"}
    /\ filtered' = filteredReport(pathToSyntax, report)
    /\ reportState' = "filtered"
    /\ UNCHANGED <<addressToBytecodes, pathToSyntax, report, logsA, logsB, reportPos>>
    /\ UNCHANGED <<pcVars, traceVars, srcVars, synVars, parseVars, crawlVars, tarVars, icptVars>>

----------------------------------------------------------------------------
(* Coverage.buildPathToSyntax, step by step for one source                  *)

\* The length of input.content and the number of insert calls of a walk.
MaxContent == 3
MaxNodes == 2

\* The bytes sources are made of: a newline and another byte.
ContentBytes == {"a", "\n"}

\* The insert calls on a content: a function or a statement at any byte, a
\* skipped statement with an empty src, and a two-way branch whose
\* alternatives are the first and the last byte.
NodeChoices(content) ==
    {FnNode(s, 1) : s \in 0..(Len(content) - 1)}
    \cup {StatementNode(s, 1, FALSE) : s \in 0..(Len(content) - 1)}
    \cup {StatementNode(0, 0, TRUE)}
    \cup IF content = <<>> THEN {}
         ELSE {BranchNode(0, Len(content),
                          <<[s |-> 0, l |-> 1], [s |-> Len(content) - 1, l |-> 1]>>)}

SyntaxIdle ==
    /\ rawSource = <<>>
    /\ astCalls = <<>>
    /\ built = <<>>
    /\ walked = 0
    /\ syntaxPhase = "idle"

\* The loop body of buildPathToSyntax is entered for a source.
SyntaxStart ==
    /\ rawSource \in SeqsUpTo(ContentBytes, MaxContent)
    /\ astCalls \in SeqsUpTo(NodeChoices(rawSource), MaxNodes)
    /\ built = [features |-> <<>>, branchMap |-> <<>>, fnMap |-> <<>>, statementMap |-> <<>>]
    /\ walked = 0
    /\ syntaxPhase = "start"

\* Coverage.buildOffsetToPosition(input.content, features)
BuildOffsetToPosition ==
    /\ syntaxPhase = "start"
    /\ built' = [built EXCEPT !.features = LineLayer(rawSource)]
    /\ syntaxPhase' = "walking"
    /\ UNCHANGED <<rawSource, astCalls, walked>>
    /\ UNCHANGED <<pcVars, traceVars, srcVars, repVars, parseVars, crawlVars, tarVars, icptVars>>

\* The next insert call of the walk of Coverage.buildSyntaxMaps.
InsertNext ==
    /\ syntaxPhase = "walking"
    /\ walked < Len(astCalls)
    /\ built' = InsertNode(built, astCalls[walked + 1])
    /\ walked' = walked + 1
    /\ UNCHANGED <<rawSource, astCalls, syntaxPhase>>
    /\ UNCHANGED <<pcVars, traceVars, srcVars, repVars, parseVars, crawlVars, tarVars, icptVars>>

\* buildSyntaxMaps returns and the SyntaxTable of the source is stored.
SyntaxBuilt ==
    /\ syntaxPhase = "walking"
    /\ walked = Len(astCalls)
    /\ syntaxPhase' = "done"
    /\ UNCHANGED <<rawSource, astCalls, built, walked>>
    /\ UNCHANGED <<pcVars, traceVars, srcVars, repVars, parseVars, crawlVars, tarVars, icptVars>>

----------------------------------------------------------------------------
(* SourceMap.parse                                                          *)

\* The length of code.sourceMap.
MaxMapLen == 5

\* The characters of a source map: digits, the sign, and the separators of
\* fields and of entries.
MapChars == {"0", "1", "-", ":", ";"}

\* The code.object of the inputs: empty, and PUSH1 01.
ParseObjects == {<<>>, <<"6", "0", "0", "1">>}

RECURSIVE SplitFrom(_, _, _, _)
\* String.prototype.split(sep), scanning from position i; the last element
\* of acc is the piece being read.
SplitFrom(str, sep, i, acc) ==
    IF i > Len(str) THEN acc
    ELSE IF str[i] = sep THEN SplitFrom(str, sep, i + 1, Append(acc, <<>>))
    ELSE SplitFrom(str, sep, i + 1,
                   [acc EXCEPT ![Len(acc)] = Append(@, str[i])])

\* str.split(sep): at least one piece, the empty string for the empty string.
Split(str, sep) == SplitFrom(str, sep, 1, <<<<>>>>)

\* A number of JavaScript, as far as parseInt makes them: an integer or NaN.
Num(n) == [nan |-> FALSE, n |-> n]
NaN == [nan |-> TRUE, n |-> 0]

DigitVal == [c \in {"0", "1"} |-> IF c = "0" THEN 0 ELSE 1]

RECURSIVE DigitsFrom(_, _, _)
\* The value of the longest run of digits of str from position i, n being
\* the value of the digits before.
DigitsFrom(str, i, n) ==
    IF i > Len(str) \/ str[i] \notin DOMAIN DigitVal THEN n
    ELSE DigitsFrom(str, i + 1, 10 * n + DigitVal[str[i]])

\* parseInt(str): an optional sign, then the longest run of digits; NaN when
\* there is no digit there.
parseInt(str) ==
    LET signed == str # <<>> /\ str[1] = "-"
        first == IF signed THEN 2 ELSE 1
    IN  IF first > Len(str) \/ str[first] \notin DOMAIN DigitVal THEN NaN
        ELSE IF signed THEN Num(0 - DigitsFrom(str, first, 0))
        ELSE Num(DigitsFrom(str, first, 0))

\* The j-th element (0-based) of entry.split(':'), as a sequence of at most
\* one string: <<>> is undefined.
FieldOf(entry, j) ==
    LET fields == Split(entry, ":")
    IN  IF j + 1 \in DOMAIN fields THEN <<fields[j + 1]>> ELSE <<>>

\* A variant of FieldGiven that also takes the field "0" for missing.
FieldGivenNonZero(field) == field # <<>> /\ field[1] # <<>> /\ field[1] # <<"0">>

\* The test `s ? ... : ...` on a field: undefined and '' are falsy, every
\* other string is truthy.
FieldGiven(field) == field # <<>> /\ field[1] # <<>>

\* The state after one entry.
NextMapState(state, entry) ==
    [s |-> IF FieldGiven(FieldOf(entry, 0)) THEN parseInt(FieldOf(entry, 0)[1]) ELSE state.s,
     l |-> IF FieldGiven(FieldOf(entry, 1)) THEN parseInt(FieldOf(entry, 1)[1]) ELSE state.l,
     f |-> IF FieldGiven(FieldOf(entry, 2)) THEN parseInt(FieldOf(entry, 2)[1]) ELSE state.f]

RECURSIVE ParseEntries(_, _, _)
\* The loop of SourceMap.parse over the entries left, from the state and the
\* ranges so far.
ParseEntries(entries, state, ranges) ==
    IF entries = <<>> THEN ranges
    ELSE LET next == NextMapState(state, Head(entries))
         IN  ParseEntries(Tail(entries), next,
                          Append(ranges, [start |-> next.s, length |-> next.l,
                                          index |-> next.f]))

\* instructionIndexToRanges of SourceMap.parse(code, sources).
parse(text) ==
    ParseEntries(Split(text, ";"), [s |-> Num(0), l |-> Num(0), f |-> Num(0)], <<>>)

ParseIdle ==
    /\ sourceMapText = <<>>
    /\ instructionIndexToRanges = <<>>
    /\ parsePhase = "idle"

\* SourceMap.parse is called with code = {object, sourceMap}.
ParseStart ==
    /\ bytecode \in ParseObjects
    /\ pcToInstructionIndices = {}
    /\ pcPhase = "input"
    /\ sourceMapText \in SeqsUpTo(MapChars, MaxMapLen)
    /\ instructionIndexToRanges = <<>>
    /\ parsePhase = "input"

\* SourceMap.parse(code, sources): both tables of the new SourceMap.
Parse ==
    /\ parsePhase = "input"
    /\ pcToInstructionIndices' = buildPCToInstructionIndices(bytecode)
    /\ pcPhase' = "built"
    /\ instructionIndexToRanges' = parse(sourceMapText)
    /\ parsePhase' = "parsed"
    /\ UNCHANGED <<bytecode, sourceMapText>>
    /\ UNCHANGED <<traceVars, srcVars, repVars, synVars, crawlVars, tarVars, icptVars>>

----------------------------------------------------------------------------
(* Trace.crawl after followInfo; Sources.loadAddresses, addressToBytecode   *)

\* info.txData.input of the transaction traced.
TxInput == <<"0", "x", "6", "0", "0", "1">>

\* The answer of the provider to eth_getCode: the code deployed at AddrA
\* and at AddrB, '0x' anywhere else.
GetCode(address) ==
    CASE ToLowerCase(address) = <<"0", "x">> \o AddrA -> <<"0", "x">> \o UnRL(LongCode)
      [] ToLowerCase(address) = <<"0", "x">> \o AddrB -> <<"0", "x", "6", "0", "b", "b">>
      [] OTHER -> <<"0", "x">>

\* A JavaScript object with string keys: the keys in insertion order and
\* the value at each.
EmptyObject == [keys |-> <<>>, at |-> <<>>]
SetKey(obj, key, value) ==
    [keys |-> IF key \in DOMAIN obj.at THEN obj.keys ELSE Append(obj.keys, key),
     at |-> (key :> value) @@ obj.at]

\* const { address } of a tagged log: undefined on a log tagged by bytecode.
AddressOf(log) == IF log.tag = "address" THEN log.value ELSE Undefined

\* address == null is false and !addressToBytecodes[address] is true: the
\* code of the address is asked for.
Fetches(obj, address) ==
    /\ address.t \notin {"null", "undefined"}
    /\ \/ PropertyKey(address) \notin DOMAIN obj.at
       \/ obj.at[PropertyKey(address)] = <<>>

\* One iteration of the loop of buildAddressToBytecodes.
BuildStep(obj, input, address) ==
    IF address.t \in {"null", "undefined"}
    THEN SetKey(obj, PropertyKey(Null), RL(Slice(input, 2, Len(input))))
    ELSE IF Fetches(obj, address)
    THEN LET code == GetCode(UnRL(address.s))
         IN  SetKey(obj, PropertyKey(address), RL(Slice(code, 2, Len(code))))
    ELSE obj

RECURSIVE BuildFrom(_, _, _)
\* The loop of buildAddressToBytecodes over the addresses left.
BuildFrom(obj, input, addresses) ==
    IF addresses = <<>> THEN obj
    ELSE BuildFrom(BuildStep(obj, input, Head(addresses)), input, Tail(addresses))

RECURSIVE CodeRequestsFrom(_, _, _)
\* The eth_getCode requests that loop sends, in order.
CodeRequestsFrom(obj, input, addresses) ==
    IF addresses = <<>> THEN <<>>
    ELSE (IF Fetches(obj, Head(addresses))
          THEN <<[method |-> "eth_getCode", params |-> <<Head(addresses)>>]>>
          ELSE <<>>)
         \o CodeRequestsFrom(BuildStep(obj, input, Head(addresses)), input, Tail(addresses))

\* Trace.buildAddressToBytecodes(provider, info, logs).
buildAddressToBytecodes(input, logs) ==
    BuildFrom(EmptyObject, input, [k \in DOMAIN logs |-> AddressOf(logs[k])])

NoLookup == [called |-> FALSE, address |-> Undefined, found |-> <<>>]

CrawlIdle ==
    /\ traceAddressToBytecodes = EmptyObject
    /\ loaded = EmptyObject
    /\ everLoaded = {}
    /\ lastAddressLookup = NoLookup
    /\ requests = <<>>

\* crawl after followInfo returned every log: the bytecodes are fetched and
\* the Trace is made.
BuildAddressToBytecodes ==
    /\ followState = "done"
    /\ traceAddressToBytecodes' = buildAddressToBytecodes(TxInput, taggedLogs)
    /\ requests' = requests \o CodeRequestsFrom(EmptyObject, TxInput,
                                    [k \in DOMAIN taggedLogs |-> AddressOf(taggedLogs[k])])
    /\ followState' = "crawled"
    /\ UNCHANGED <<txTo, structLogs, followIdx, frames, taggedLogs, loaded, everLoaded>>
    /\ UNCHANGED lastAddressLookup
    /\ UNCHANGED <<pcVars, srcVars, repVars, synVars, parseVars, tarVars, icptVars>>

\* traceAndReport: sources.loadAddresses(trace.addressToBytecodes).
LoadAddresses ==
    /\ followState = "crawled"
    /\ addressToBytecodes' = loadAddresses(addressToBytecodes, traceAddressToBytecodes.at,
                                           traceAddressToBytecodes.keys)
    /\ loaded' = traceAddressToBytecodes
    /\ everLoaded' = everLoaded \cup DOMAIN traceAddressToBytecodes.at
    /\ followState' = "loaded"
    /\ UNCHANGED <<txTo, structLogs, followIdx, frames, taggedLogs, traceAddressToBytecodes>>
    /\ UNCHANGED <<lastAddressLookup, pathToSyntax, report, logsA, logsB, reportPos, reportState>>
    /\ UNCHANGED requests
    /\ UNCHANGED <<filtered, pcVars, srcVars, synVars, parseVars, tarVars, icptVars>>

\* report resolves the address of a log of the trace.
ResolveLog ==
    /\ followState = "loaded"
    /\ \E i \in DOMAIN taggedLogs :
          /\ taggedLogs[i].tag = "address"
          /\ lastAddressLookup' =
                 [called |-> TRUE, address |-> taggedLogs[i].value,
                  found |-> addressToBytecode(addressToBytecodes, taggedLogs[i].value)]
    /\ UNCHANGED <<traceAddressToBytecodes, loaded, everLoaded, requests>>
    /\ UNCHANGED <<pcVars, traceVars, srcVars, repVars, synVars, parseVars, tarVars, icptVars>>

\* Bound of the maps loaded.
MaxKeys == 2

\* The keys and the bytecodes of the maps loaded: two case variants of one
\* address, and another address.
KeyChoices ==
    {RL(<<"0", "x", "a", "b">>), RL(<<"0", "x", "A", "B">>), RL(<<"0", "x", "c", "d">>)}
BytecodeChoices == {RL(<<"6", "0", "a", "a">>), RL(<<"6", "0", "b", "b">>)}

\* The objects with at most n of these keys, in any order.
ObjectsUpTo(n) ==
    UNION {[keys : {keys}, at : [{keys[k] : k \in DOMAIN keys} -> BytecodeChoices]] :
           keys \in {s \in SeqsUpTo(KeyChoices, n) :
                        \A i, j \in DOMAIN s : i # j => s[i] # s[j]}}

\* The arguments addressToBytecode is called with.
AddressChoices ==
    {Str(UnRL(k)) : k \in KeyChoices}
    \cup {Str(<<"0", "X", "a", "B">>), Str(<<"0", "x", "e", "f">>), Null, Undefined}

\* The maps loadAddresses is called with.
LoadChoices == ObjectsUpTo(MaxKeys)

\* A Sources just made: no address is loaded.
AddressesStart == CrawlIdle

\* sources.loadAddresses(m), for any m.
LoadAny ==
    /\ \E m \in LoadChoices :
          /\ addressToBytecodes' = loadAddresses(addressToBytecodes, m.at, m.keys)
          /\ loaded' = m
          /\ everLoaded' = everLoaded \cup DOMAIN m.at
    /\ UNCHANGED <<traceAddressToBytecodes, lastAddressLookup, requests>>
    /\ UNCHANGED <<pathToSyntax, report, logsA, logsB, reportPos, reportState, filtered>>
    /\ UNCHANGED <<pcVars, traceVars, srcVars, synVars, parseVars, tarVars, icptVars>>

\* sources.addressToBytecode(address), for any address.
LookupAddress ==
    /\ \E address \in AddressChoices :
          lastAddressLookup' =
              [called |-> TRUE, address |-> address,
               found |-> addressToBytecode(addressToBytecodes, address)]
    /\ UNCHANGED <<traceAddressToBytecodes, loaded, everLoaded, requests>>
    /\ UNCHANGED <<pcVars, traceVars, srcVars, repVars, synVars, parseVars, tarVars, icptVars>>

----------------------------------------------------------------------------
(* Coverage.traceAndReport                                                  *)

\* Bound of the hashes of a call.
MaxTxs == 2

\* The transactions the provider knows, and a hash it does not know.  The
\* first runs two instructions of the code at AddrA, which the artifacts
\* hold, the second being a call that returns at once; the second ends on
\* a CREATE; the third runs code at AddrB, which no artifact holds; the last
\* runs two instructions of a contract at AddrC that destroys itself, so
\* that no code is left at AddrC when crawl asks for it.
GoodTx == "0x01"
CreateTx == "0x02"
ForeignTx == "0x03"
MissingTx == "0x04"
VacatedTx == "0x05"
TxChoices == {GoodTx, CreateTx, ForeignTx, MissingTx, VacatedTx}

\* A struct log with its pc.
StructLogAt(pc, op, stack, memory, depth) ==
    [pc |-> pc, op |-> op, stack |-> stack, memory |-> memory, depth |-> depth]

\* The answers to eth_getTransactionByHash and debug_traceTransaction.
TxInfo(txHash) ==
    CASE txHash = GoodTx ->
             [to |-> Str(LoadedAddress),
              structLogs |-> <<StructLogAt(0, "JUMPDEST", <<>>, <<>>, 1),
                               StructLogAt(1, "CALL", <<WordOf(AddrB), NumWord(0)>>, <<>>, 1)>>]
      [] txHash = CreateTx ->
             [to |-> Str(LoadedAddress),
              structLogs |-> <<StructLogAt(0, "CREATE",
                                           <<NumWord(2), NumWord(0), NumWord(0)>>,
                                           <<MemWord>>, 1)>>]
      [] txHash = ForeignTx ->
             [to |-> Str(<<"0", "x">> \o AddrB),
              structLogs |-> <<StructLogAt(0, "JUMPDEST", <<>>, <<>>, 1)>>]
      [] txHash = VacatedTx ->
             [to |-> Str(<<"0", "x">> \o AddrC),
              structLogs |-> <<StructLogAt(0, "JUMPDEST", <<>>, <<>>, 1),
                               StructLogAt(1, "SELFDESTRUCT", <<NumWord(0)>>, <<>>, 1)>>]

\* trace.logs as report reads them: the tag and the fields of the struct log.
TraceLogs ==
    [i \in DOMAIN taggedLogs |->
        [bytecode |-> IF taggedLogs[i].tag = "bytecode" THEN taggedLogs[i].value ELSE Undefined,
         address |-> IF taggedLogs[i].tag = "address" THEN taggedLogs[i].value ELSE Undefined,
         pc |-> structLogs[i].pc, op |-> structLogs[i].op]]

TarIdle ==
    /\ txHashes = <<>>
    /\ txPos = 0
    /\ reported = {}
    /\ tarState = "idle"

\* coverage.traceAndReport(provider, txHashes) on a Coverage over
\* ReportArtifacts: the report is fresh and no address is loaded.
TarStart ==
    /\ artifacts = ReportArtifacts
    /\ LET S == NewSources(ReportArtifacts)
       IN  /\ bytecodeToSourceMaps = S.b2s
           /\ bytecodeAndIndexToPath = S.bi2p
           /\ pathToCompilerSources = S.p2cs
           /\ unique = S.unique
           /\ pathToSyntax = buildPathToSyntax(S.p2cs)
           /\ report = freshReport(buildPathToSyntax(S.p2cs))
    /\ sourcesState = "ready"
    /\ ctorNext = Len(ReportArtifacts) + 1
    /\ lastLookup = [bytecode |-> <<>>, how |-> "none", sourceMap |-> 0]
    /\ fuzzyReturned = {}
    /\ addressToBytecodes = <<>>
    /\ logsA = <<>>
    /\ logsB = <<>>
    /\ reportPos = 0
    /\ reportState = "idle"
    /\ filtered = <<>>
    /\ txHashes \in SeqsUpTo(TxChoices, MaxTxs)
    /\ txPos = 0
    /\ reported = {}
    /\ tarState = "running"

\* The two requests of Trace.getInfo.
InfoRequests(txHash) ==
    <<[method |-> "eth_getTransactionByHash", params |-> <<txHash>>],
      [method |-> "debug_traceTransaction", params |-> <<txHash>>]>>

\* Trace.getInfo for the next hash, and the entry of followInfo; a hash the
\* provider does not know makes crawl throw at its first request.
GetInfo ==
    /\ tarState = "running"
    /\ followState = "idle"
    /\ txPos < Len(txHashes)
    /\ LET txHash == txHashes[txPos + 1]
       IN  IF txHash = MissingTx
           THEN /\ requests' = <<InfoRequests(txHash)[1]>>
                /\ tarState' = "threw"
                /\ UNCHANGED traceVars
           ELSE /\ requests' = InfoRequests(txHash)
                /\ txTo' = TxInfo(txHash).to
                /\ structLogs' = TxInfo(txHash).structLogs
                /\ followIdx' = 1
                /\ frames' = <<AddressFrame(TxInfo(txHash).to)>>
                /\ taggedLogs' = <<>>
                /\ followState' = "running"
                /\ UNCHANGED tarState
    /\ UNCHANGED <<txHashes, txPos, reported>>
    /\ UNCHANGED <<traceAddressToBytecodes, loaded, everLoaded, lastAddressLookup>>
    /\ UNCHANGED <<pcVars, srcVars, repVars, synVars, parseVars, icptVars>>

\* The fault of followInfo leaves crawl and traceAndReport.
CrawlThrows ==
    /\ tarState = "running"
    /\ followState = "fault"
    /\ tarState' = "threw"
    /\ UNCHANGED <<txHashes, txPos, reported>>
    /\ UNCHANGED <<pcVars, traceVars, srcVars, repVars, synVars, parseVars, crawlVars, icptVars>>

\* this.report(trace.logs, report), and the end of the iteration; a throw
\* of report leaves traceAndReport.
ReportTrace ==
    /\ tarState = "running"
    /\ followState = "loaded"
    /\ LET out == ReportLogs(artifacts, addressToBytecodes, pathToSyntax,
                             [S |-> TheSources, R |-> report, threw |-> FALSE], TraceLogs)
       IN  /\ bytecodeToSourceMaps' = out.S.b2s
           /\ bytecodeAndIndexToPath' = out.S.bi2p
           /\ pathToCompilerSources' = out.S.p2cs
           /\ unique' = out.S.unique
           /\ report' = out.R
           /\ IF out.threw
              THEN /\ tarState' = "threw"
                   /\ UNCHANGED <<txPos, reported, traceVars, traceAddressToBytecodes, icptVars>>
              ELSE /\ txPos' = txPos + 1
                   /\ reported' = reported \cup {txPos + 1}
                   /\ txTo' = Undefined
                   /\ structLogs' = <<>>
                   /\ followIdx' = 0
                   /\ frames' = <<>>
                   /\ taggedLogs' = <<>>
                   /\ followState' = "idle"
                   /\ traceAddressToBytecodes' = EmptyObject
                   /\ UNCHANGED tarState
    /\ UNCHANGED <<artifacts, sourcesState, ctorNext, lastLookup, fuzzyReturned>>
    /\ UNCHANGED <<addressToBytecodes, pathToSyntax, logsA, logsB, reportPos, reportState>>
    /\ UNCHANGED <<filtered, txHashes, loaded, everLoaded, lastAddressLookup, requests>>
    /\ UNCHANGED <<pcVars, synVars, parseVars, icptVars>>

\* The loop is over: traceAndReport returns the report.
TarReturns ==
    /\ tarState = "running"
    /\ followState = "idle"
    /\ txPos = Len(txHashes)
    /\ tarState' = "returned"
    /\ UNCHANGED <<txHashes, txPos, reported>>
    /\ UNCHANGED <<pcVars, traceVars, srcVars, repVars, synVars, parseVars, crawlVars, icptVars>>

----------------------------------------------------------------------------
(* CoverInterceptor                                                         *)

\* Bound of the requests in flight at once.
MaxInFlight == 2
RequestIds == 1..MaxInFlight

\* The requests a client makes: eth_call of a call object and a block tag,
\* eth_sendTransaction of a transaction object, and a method that is not
\* intercepted.
CallObjects == {"objA", "objB"}
ArgsChoices ==
    {[method |-> "eth_call", params |-> <<o, "latest">>] : o \in CallObjects}
    \cup {[method |-> "eth_sendTransaction", params |-> <<o>>] : o \in CallObjects}
    \cup {[method |-> "eth_chainId", params |-> <<>>]}

\* A request as it enters CoverInterceptor.request: its arguments, where it
\* is, the requests it made to the provider with their outcome, the locals
\* result, snapId and txHash, and how its promise settled.
NewRequest(args) ==
    [args |-> args, pc |-> "request", sent |-> <<>>, result |-> <<>>, snapId |-> 0,
     txHash |-> 0, settled |-> "no", value |-> <<>>]

\* this.provider.request({method, params}) and its outcome.
Provide(call, method, params, ok, response) ==
    [call EXCEPT !.sent = Append(@, [method |-> method, params |-> params, ok |-> ok,
                                     response |-> IF ok THEN response ELSE <<"error">>])]

\* The promise of the request settles.
Reject(call) == [call EXCEPT !.pc = "settled", !.settled = "rejected", !.value = <<"error">>]
Fulfil(call, value) == [call EXCEPT !.pc = "settled", !.settled = "fulfilled", !.value = value]

\* What the provider answers to eth_call and to a method passed through.
CallResult(params) == <<"result">> \o params

\* A variant of ReplayParams that sends every parameter of the call.
ReplayParamsAll(args) == args.params

\* The parameters of the eth_sendTransaction of interceptSend: [args.params[0]].
ReplayParams(args) == <<args.params[1]>>

\* interceptSend returns txHash: the promise of an eth_sendTransaction is
\* fulfilled with it, interceptCall goes on to its revert.
SendReturned(call) ==
    IF call.args.method = "eth_call"
    THEN [call EXCEPT !.pc = "revert"]
    ELSE Fulfil(call, call.txHash)

InterceptIdle ==
    /\ inflight = <<>>
    /\ nextSnapshotId = 0
    /\ nextTxHash = 0
    /\ chain = <<>>
    /\ snapshots = <<>>

\* The requests are made; none has reached the provider.
InterceptStart ==
    /\ inflight \in [RequestIds -> {NewRequest(args) : args \in ArgsChoices}]
    /\ nextSnapshotId = 1
    /\ nextTxHash = 1
    /\ chain = <<>>
    /\ snapshots = <<>>

\* What the interceptor leaves alone.
Elsewhere == UNCHANGED <<pcVars, traceVars, srcVars, repVars, synVars, parseVars, crawlVars, tarVars>>

\* request, default: the request goes to the provider as it is.
PassThrough ==
    \E c \in RequestIds, ok \in BOOLEAN :
       LET call == inflight[c]
           made == Provide(call, call.args.method, call.args.params, ok,
                           CallResult(call.args.params))
       IN  /\ call.pc = "request"
           /\ call.args.method \notin {"eth_call", "eth_sendTransaction"}
           /\ inflight' = [inflight EXCEPT ![c] =
                              IF ok THEN Fulfil(made, CallResult(call.args.params))
                              ELSE Reject(made)]
           /\ UNCHANGED <<nextSnapshotId, nextTxHash, chain, snapshots>>
           /\ Elsewhere

\* interceptCall: the eth_call is forwarded and its result kept.
ForwardCall ==
    \E c \in RequestIds, ok \in BOOLEAN :
       LET call == inflight[c]
           made == Provide(call, "eth_call", call.args.params, ok,
                           CallResult(call.args.params))
       IN  /\ call.pc = "request"
           /\ call.args.method = "eth_call"
           /\ inflight' = [inflight EXCEPT ![c] =
                              IF ok
                              THEN [made EXCEPT !.pc = "snapshot",
                                                !.result = CallResult(call.args.params)]
                              ELSE Reject(made)]
           /\ UNCHANGED <<nextSnapshotId, nextTxHash, chain, snapshots>>
           /\ Elsewhere

\* interceptCall: evm_snapshot.  The provider remembers its state.
Snapshot ==
    \E c \in RequestIds, ok \in BOOLEAN :
       LET call == inflight[c]
           made == Provide(call, "evm_snapshot", <<>>, ok, nextSnapshotId)
       IN  /\ call.pc = "snapshot"
           /\ inflight' = [inflight EXCEPT ![c] =
                              IF ok
                              THEN [made EXCEPT !.pc = "send", !.snapId = nextSnapshotId]
                              ELSE Reject(made)]
           /\ nextSnapshotId' = IF ok THEN nextSnapshotId + 1 ELSE nextSnapshotId
           /\ snapshots' = IF ok THEN (nextSnapshotId :> Len(chain)) @@ snapshots
                            ELSE snapshots
           /\ UNCHANGED <<nextTxHash, chain>>
           /\ Elsewhere

\* interceptSend, entered from request or from interceptCall:
\* eth_sendTransaction.
SendTransaction ==
    \E c \in RequestIds, ok \in BOOLEAN :
       LET call == inflight[c]
           made == Provide(call, "eth_sendTransaction", ReplayParams(call.args), ok,
                           nextTxHash)
       IN  /\ \/ call.pc = "send"
              \/ call.pc = "request" /\ call.args.method = "eth_sendTransaction"
           /\ inflight' = [inflight EXCEPT ![c] =
                              IF ok
                              THEN [made EXCEPT !.pc = "pending", !.txHash = nextTxHash]
                              ELSE Reject(made)]
           /\ nextTxHash' = IF ok THEN nextTxHash + 1 ELSE nextTxHash
           /\ chain' = IF ok THEN Append(chain, nextTxHash) ELSE chain
           /\ UNCHANGED <<nextSnapshotId, snapshots>>
           /\ Elsewhere

\* A variant of TracingDue that traces whatever the pending block lists.
TracingDueAlways(n) == TRUE

\* The else branch of if (pending.transactions.length), n being that length.
TracingDue(n) == n = 0

\* interceptSend: the pending block is asked for; it lists n transactions.
\* With none, traceAndReport is entered; else interceptSend returns.
PendingBlock ==
    \E c \in RequestIds, ok \in BOOLEAN, n \in {0, 1} :
       LET call == inflight[c]
           made == Provide(call, "eth_getBlockByNumber", <<"pending", FALSE>>, ok, n)
       IN  /\ call.pc = "pending"
           /\ inflight' = [inflight EXCEPT ![c] =
                              IF ~ok THEN Reject(made)
                              ELSE IF TracingDue(n) THEN [made EXCEPT !.pc = "getTx"]
                              ELSE SendReturned(made)]
           /\ UNCHANGED <<nextSnapshotId, nextTxHash, chain, snapshots>>
           /\ Elsewhere

\* traceAndReport, Trace.getInfo: eth_getTransactionByHash.  A failure is
\* caught by interceptSend, which returns.
GetTransactionByHash ==
    \E c \in RequestIds, ok \in BOOLEAN :
       LET call == inflight[c]
           made == Provide(call, "eth_getTransactionByHash", <<call.txHash>>, ok, <<"tx">>)
       IN  /\ call.pc = "getTx"
           /\ inflight' = [inflight EXCEPT ![c] =
                              IF ok THEN [made EXCEPT !.pc = "trace"] ELSE SendReturned(made)]
           /\ UNCHANGED <<nextSnapshotId, nextTxHash, chain, snapshots>>
           /\ Elsewhere

\* Trace.getInfo: debug_traceTransaction, and followInfo over the answer:
\* it faults, or yields no log with an address to fetch, or yields some.
TraceTransaction ==
    \E c \in RequestIds, ok \in BOOLEAN, yield \in {"fault", "none", "some"} :
       LET call == inflight[c]
           made == Provide(call, "debug_traceTransaction", <<call.txHash>>, ok, <<"trace">>)
       IN  /\ call.pc = "trace"
           /\ inflight' = [inflight EXCEPT ![c] =
                              IF ok /\ yield = "some" THEN [made EXCEPT !.pc = "getCode"]
                              ELSE SendReturned(made)]
           /\ UNCHANGED <<nextSnapshotId, nextTxHash, chain, snapshots>>
           /\ Elsewhere

\* Trace.buildAddressToBytecodes: eth_getCode; then loadAddresses and
\* report, which return or throw.  interceptSend returns either way.
FetchCode ==
    \E c \in RequestIds, ok \in BOOLEAN :
       LET call == inflight[c]
           made == Provide(call, "eth_getCode", <<"address">>, ok, <<"code">>)
       IN  /\ call.pc = "getCode"
           /\ inflight' = [inflight EXCEPT ![c] = SendReturned(made)]
           /\ UNCHANGED <<nextSnapshotId, nextTxHash, chain, snapshots>>
           /\ Elsewhere

\* interceptCall: evm_revert of its snapshot, and the result is returned.
\* The provider goes back to a snapshot it still has, forgetting it and
\* every later one, and answers true; for any other id it answers false.
Revert ==
    \E c \in RequestIds, ok \in BOOLEAN :
       LET call == inflight[c]
           valid == call.snapId \in DOMAIN snapshots
           made == Provide(call, "evm_revert", <<call.snapId>>, ok, valid)
       IN  /\ call.pc = "revert"
           /\ inflight' = [inflight EXCEPT ![c] =
                              IF ok THEN Fulfil(made, call.result) ELSE Reject(made)]
           /\ chain' = IF ok /\ valid THEN SubSeq(chain, 1, snapshots[call.snapId])
                        ELSE chain
           /\ snapshots' = IF ok /\ valid
                            THEN [id \in {i \in DOMAIN snapshots : i < call.snapId} |->
                                     snapshots[id]]
                            ELSE snapshots
           /\ UNCHANGED <<nextSnapshotId, nextTxHash>>
           /\ Elsewhere

----------------------------------------------------------------------------
(* The specifications.                                                      *)

PCInit == PCStart /\ TraceIdle /\ SourcesIdle /\ ReportIdle /\ SyntaxIdle /\ ParseIdle /\ CrawlIdle /\ TarIdle /\ InterceptIdle
PCNext == BuildPCToInstructionIndices
SpecPC == PCInit /\ [][PCNext]_vars

TraceInit == TraceStart /\ PCIdle /\ SourcesIdle /\ ReportIdle /\ SyntaxIdle /\ ParseIdle /\ CrawlIdle /\ TarIdle /\ InterceptIdle
TraceNext ==
    \/ FollowCall \/ FollowCreate \/ FollowOther \/ FollowEnd
    \/ BuildAddressToBytecodes \/ LoadAddresses \/ ResolveLog
SpecTrace == TraceInit /\ [][TraceNext]_vars

SourcesInit == SourcesStart /\ PCIdle /\ TraceIdle /\ ReportIdle /\ SyntaxIdle /\ ParseIdle /\ CrawlIdle /\ TarIdle /\ InterceptIdle
SourcesNext == InitPathsStep \/ ConstructorReturns \/ LookupAny
SpecSources == SourcesInit /\ [][SourcesNext]_vars

ReportInit == ReportStart /\ PCIdle /\ TraceIdle /\ SyntaxIdle /\ ParseIdle /\ CrawlIdle /\ TarIdle /\ InterceptIdle
ReportNext == ReportNextLog \/ ReportReturns \/ FilterReport
SpecReport == ReportInit /\ [][ReportNext]_vars

SyntaxInit == SyntaxStart /\ PCIdle /\ TraceIdle /\ SourcesIdle /\ ReportIdle /\ ParseIdle /\ CrawlIdle /\ TarIdle /\ InterceptIdle
SyntaxNext == BuildOffsetToPosition \/ InsertNext \/ SyntaxBuilt
SpecSyntax == SyntaxInit /\ [][SyntaxNext]_vars

ParseInit == ParseStart /\ TraceIdle /\ SourcesIdle /\ ReportIdle /\ SyntaxIdle /\ CrawlIdle /\ TarIdle /\ InterceptIdle
ParseNext == Parse
SpecParse == ParseInit /\ [][ParseNext]_vars

AddressesInit == AddressesStart /\ PCIdle /\ TraceIdle /\ SourcesIdle /\ ReportIdle /\ SyntaxIdle /\ ParseIdle /\ TarIdle /\ InterceptIdle
AddressesNext == LoadAny \/ LookupAddress
SpecAddresses == AddressesInit /\ [][AddressesNext]_vars

TarInit == TarStart /\ PCIdle /\ TraceIdle /\ SyntaxIdle /\ ParseIdle /\ CrawlIdle /\ InterceptIdle
TarNext ==
    \/ GetInfo \/ FollowCall \/ FollowCreate \/ FollowOther \/ FollowEnd
    \/ BuildAddressToBytecodes \/ LoadAddresses \/ ReportTrace \/ CrawlThrows \/ TarReturns
SpecTar == TarInit /\ [][TarNext]_vars

InterceptInit == InterceptStart /\ PCIdle /\ TraceIdle /\ SourcesIdle /\ ReportIdle /\ SyntaxIdle /\ ParseIdle /\ CrawlIdle /\ TarIdle
InterceptNext ==
    \/ PassThrough \/ ForwardCall \/ Snapshot \/ SendTransaction \/ PendingBlock
    \/ GetTransactionByHash \/ TraceTransaction \/ FetchCode \/ Revert
SpecIntercept == InterceptInit /\ [][InterceptNext]_vars

----------------------------------------------------------------------------
(* Claims.                                                                  *)

\* The table the byte walker is specified to produce: the prefix sums of
\* the instruction lengths over the decoded bytes, numbered in order, up to
\* the end of the decoded byte stream.
PrefixSumTable(bytes) == WalkFrom(Len(bytes), bytes, 0, 0, {})

\* C1: buildPCToInstructionIndices records exactly the prefix sums of the
\* instruction lengths over the decoded bytes, numbered 0,1,2,..., and stops
\* at the end of the decoded byte stream; so pcToInstructionIndex(pc) is the
\* number of instructions starting before pc.
C1_TableIsPrefixSums ==
    pcPhase = "built" =>
        /\ pcToInstructionIndices = PrefixSumTable(HexDecode(bytecode))
        /\ \A e \in pcToInstructionIndices :
              e[2] = Cardinality({d \in PrefixSumTable(HexDecode(bytecode)) : d[1] < e[1]})


\* The log that entered the frame log j executes in: the last log before j
\* of smaller depth, or 0 when j executes in the transaction's first frame.
EntryOf(j) ==
    LET before == {c \in 1..(j - 1) : structLogs[c].depth < structLogs[j].depth}
    IN  IF before = {} THEN 0 ELSE CHOOSE c \in before : \A d \in before : d <= c

\* The logs before followIdx that entered a frame.
Entered ==
    {c \in 1..(followIdx - 1) :
        /\ c \in DOMAIN structLogs /\ c + 1 \in DOMAIN structLogs
        /\ structLogs[c].op \in CallOps \cup CreateOps
        /\ structLogs[c + 1].depth = structLogs[c].depth + 1}

\* C2: in a trace whose depth changes by at most one per step, every log
\* executed in the frame entered by a CALL-family log is tagged with the low
\* 20 bytes, 0x-prefixed, of the second-from-top word of that call's
\* pre-stack; after the depth drops back the logs carry the caller frame's tag
\* again (two logs of one frame carry the same tag); and a call whose
\* successor is not one level deeper pushes no frame.
C2_CalleeTagAndResume ==
    /\ \A j \in DOMAIN taggedLogs :
          LET c == EntryOf(j)
          IN  /\ (c # 0 /\ structLogs[c].op \in CallOps) =>
                    taggedLogs[j] =
                        [tag |-> "address",
                         value |-> Str(<<"0", "x">> \o
                             SubSeq(StackOf(structLogs[c])[Len(structLogs[c].stack) - 1], 25, 64))]
              /\ \A k \in 1..(j - 1) : EntryOf(k) = c => taggedLogs[j] = taggedLogs[k]
    /\ followState \in {"running", "done"} => Len(frames) <= 1 + Cardinality(Entered)

\* C3: every emitted log carries exactly one tag: `bytecode`, the slice
\* [2*offset, 2*(offset+length)) of the creating log's joined memory, when it
\* executes in a frame entered by CREATE or CREATE2, and `address` otherwise.
C3_ExactlyOneTag ==
    \A j \in DOMAIN taggedLogs :
        LET c == EntryOf(j)
        IN  IF c # 0 /\ structLogs[c].op \in CreateOps
            THEN taggedLogs[j] =
                    [tag |-> "bytecode", value |-> Str(CreatedBytecode(structLogs[c]))]
            ELSE taggedLogs[j].tag = "address"


\* The sources of the bytecode under key number n.
SourcesOfKey(n) == CompilerSourcesOf(artifacts, bytecodeToSourceMaps[n].sourceMap)

\* What one call indexBytecodeToSourceMap(bc), for the SourceMap sm, must
\* have done to the next state.
IndexedAsSpecified(bc, sm) ==
    /\ sourcesState' # "fault"
    /\ lastLookup'.how # "TypeError"
    /\ \A k \in DOMAIN CompilerSourcesOf(artifacts, sm) :
          LET src == CompilerSourcesOf(artifacts, sm)[k]
              matches == {i \in 0..(unique - 1) :
                            /\ DisambiguatedPath(src.path, i) \in DOMAIN pathToCompilerSources
                            /\ pathToCompilerSources[DisambiguatedPath(src.path, i)].content
                                  = src.content}
              got == compilerSourcePath(bytecodeAndIndexToPath', bc, src.id)
          IN  (/\ src.path \in DOMAIN pathToCompilerSources
               /\ pathToCompilerSources[src.path].content # src.content) =>
                 /\ got # <<>>
                 /\ IF matches # {}
                    THEN got[1] \in {DisambiguatedPath(src.path, i) : i \in matches}
                    ELSE /\ unique' > unique
                         /\ got[1] \in {DisambiguatedPath(src.path, u) : u \in unique..(unique' - 1)}
                         /\ got[1] \notin DOMAIN pathToCompilerSources
                         /\ got[1] \in DOMAIN pathToCompilerSources'
                         /\ pathToCompilerSources'[got[1]].content = src.content

\* C6: indexBytecodeToSourceMap, for a source whose nominal path is stored
\* with different content, reuses the `path:i` (i < unique) holding the
\* source's content if there is one, else stores it under `path:unique` and
\* increments unique; and it completes without fault from every reachable
\* Sources state.
C6_IndexDisambiguates ==
    [][/\ InitPathsStep =>
             IndexedAsSpecified(bytecodeToSourceMaps[ctorNext].bytecode,
                                bytecodeToSourceMaps[ctorNext].sourceMap)
       /\ \A bc \in Deployed :
             (BytecodeToSourceMap(bc) /\ Resolve(bytecodeToSourceMaps, bc).how = "fuzzy") =>
                 IndexedAsSpecified(bc, Resolve(bytecodeToSourceMaps, bc).sourceMap)]_vars

\* C7: for every indexed bytecode and every source id of its compilation,
\* compilerSourcePath returns a path whose stored CompilerSource has exactly
\* the content of that source in that bytecode's compilation.
C7_PathResolvesContent ==
    sourcesState \in {"constructing", "ready"} =>
        \A n \in DOMAIN bytecodeToSourceMaps :
            (sourcesState = "ready" \/ n < ctorNext) =>
                \A k \in DOMAIN SourcesOfKey(n) :
                    LET got == compilerSourcePath(bytecodeAndIndexToPath,
                                                  bytecodeToSourceMaps[n].bytecode,
                                                  SourcesOfKey(n)[k].id)
                    IN  /\ got # <<>>
                        /\ got[1] \in DOMAIN pathToCompilerSources
                        /\ pathToCompilerSources[got[1]].content = SourcesOfKey(n)[k].content

\* A bytecode cached by a fuzzy match resolves one of its sources to a
\* disambiguated path.
C7_Witness ==
    /\ sourcesState = "ready"
    /\ \E n \in DOMAIN bytecodeToSourceMaps :
          /\ n > Len(artifacts)
          /\ \E k \in DOMAIN SourcesOfKey(n) :
                Len(bytecodeAndIndexToPath[bytecodeToSourceMaps[n].bytecode]
                        [SourcesOfKey(n)[k].id]) = 3

\* The two rules as the specification states them, on strings.
RuleAccepts(b, k) ==
    \/ /\ Len(b) = Len(k)
       /\ \A i \in 1..Len(b) : b[i] = k[i] \/ k[i] = "0"
    \/ /\ Len(b) > Len(k)
       /\ Len(k) > 42
       /\ SubSeq(b, 1, Len(k)) = k

\* The keys of b2s a rule accepts for bc.
AcceptingKeys(bc) ==
    {n \in DOMAIN bytecodeToSourceMaps :
        RuleAccepts(UnRL(bc), UnRL(bytecodeToSourceMaps[n].bytecode))}

\* C8: bytecodeToSourceMap(b) returns the SourceMap stored under b when b is
\* a key; otherwise the SourceMap of a key accepted by the same-length rule
\* or by the prefix rule (known length above 42); and it fails with
\* NoSourceMap exactly when no key is accepted.
C8_LookupFollowsRules ==
    [][\A bc \in Deployed \cup {LongCode} :
          BytecodeToSourceMap(bc) =>
              /\ lastLookup'.bytecode = bc
              /\ IF SourceMapUnder(bytecodeToSourceMaps, bc) # <<>>
                 THEN /\ lastLookup'.how = "direct"
                      /\ lastLookup'.sourceMap = SourceMapUnder(bytecodeToSourceMaps, bc)[1]
                 ELSE IF AcceptingKeys(bc) # {}
                 THEN /\ lastLookup'.how = "fuzzy"
                      /\ \E n \in AcceptingKeys(bc) :
                            lastLookup'.sourceMap = bytecodeToSourceMaps[n].sourceMap
                 ELSE lastLookup'.how = "NoSourceMap"]_vars

\* A lookup succeeded through the prefix rule while a key of 42 digits that
\* is a prefix of another deployed bytecode is known.
C8_Witness ==
    /\ lastLookup.how = "fuzzy"
    /\ Len(UnRL(lastLookup.bytecode)) > Len(UnRL(artifacts[lastLookup.sourceMap].bytecode))
    /\ \E n \in DOMAIN artifacts : artifacts[n].bytecode = FloorCode

\* C9: once bytecodeToSourceMap(b) has succeeded through a fuzzy rule, b is
\* a key bound to the SourceMap returned, and every later lookup of b
\* returns that SourceMap, directly.
C9_FuzzyResultCached ==
    \A r \in fuzzyReturned :
        /\ Resolve(bytecodeToSourceMaps, r.bytecode)
              = [how |-> "direct", sourceMap |-> r.sourceMap]
        /\ lastLookup.bytecode = r.bytecode =>
              /\ lastLookup.sourceMap = r.sourceMap
              /\ lastLookup.how \in {"fuzzy", "direct"}

\* A bytecode resolved by a fuzzy match, then another one, then the first
\* again by direct lookup.
C9_Witness ==
    /\ Cardinality(fuzzyReturned) >= 2
    /\ lastLookup.how = "direct"
    /\ \E r \in fuzzyReturned :
          /\ r.bytecode = lastLookup.bytecode
          /\ r.sourceMap = 2

----------------------------------------------------------------------------
(* Coverage.report: what one log counts                                     *)

\* The log the next iteration of report processes.
NextLog == (logsA \o logsB)[reportPos + 1]

\* Where the Sources of the current state attribute a log: the path and the
\* SourceRange of its pc, as a sequence of at most one [path, range].
Attribution(log) ==
    LET codes == IF Truthy(log.bytecode) THEN <<log.bytecode.s>>
                 ELSE addressToBytecode(addressToBytecodes, log.address)
    IN  IF codes = <<>> THEN <<>>
        ELSE LET r == Resolve(bytecodeToSourceMaps, codes[1])
             IN  IF r.how = "NoSourceMap" THEN <<>>
                 ELSE LET range == pcToRange(artifacts, r.sourceMap, log.pc)
                      IN  IF range = <<>> \/ ~(range[1].length > 0) THEN <<>>
                          ELSE LET path == compilerSourcePath(bytecodeAndIndexToPath,
                                               artifacts[r.sourceMap].bytecode,
                                               range[1].index)
                               IN  IF path = <<>> THEN <<>>
                                   ELSE <<[path |-> path[1], range |-> range[1]]>>

\* The bytes of a range that have features.
BytesOf(path, range) ==
    {i \in range.start..(range.start + range.length - 1) : i \in DOMAIN pathToSyntax[path].features}

\* The function ids met when scanning a range, in order of the scan.
FnIdsAt(path, i) ==
    LET fs == pathToSyntax[path].features[i]
    IN  {fs[k].id : k \in {k \in DOMAIN fs : fs[k].kind = "f"}}

\* The first function feature met when scanning the range: <<id>>, or <<>>.
FirstFnMet(path, range) ==
    LET with == {i \in BytesOf(path, range) : FnIdsAt(path, i) # {}}
    IN  IF with = {} THEN <<>>
        ELSE LET i == CHOOSE i \in with : \A j \in with : i <= j
                 fs == pathToSyntax[path].features[i]
                 k == CHOOSE k \in DOMAIN fs :
                         /\ fs[k].kind = "f"
                         /\ \A m \in DOMAIN fs : fs[m].kind = "f" => k <= m
             IN  <<fs[k].id>>

\* The function counters the step has changed: <<path, id>>.
FnChanged ==
    {pi \in UNION {{<<path, id>> : id \in DOMAIN report[path].f} : path \in DOMAIN report} :
        report'[pi[1]].f[pi[2]] # report[pi[1]].f[pi[2]]}

\* C4: processing one log changes a function counter only if the log's op is
\* JUMPDEST, changes at most one function counter, adds exactly 1 to it, and
\* that counter is the one of the first function feature met when scanning
\* the bytes of the log's range in order.
C4_FirstFunctionOnly ==
    [][ (reportState = "running" /\ reportPos < Len(logsA \o logsB)) =>
          /\ NextLog.op # "JUMPDEST" => FnChanged = {}
          /\ Cardinality(FnChanged) <= 1
          /\ \A pi \in FnChanged :
                /\ report'[pi[1]].f[pi[2]] = report[pi[1]].f[pi[2]] + 1
                /\ Attribution(NextLog) # <<>>
                /\ pi[1] = Attribution(NextLog)[1].path
                /\ <<pi[2]>> = FirstFnMet(pi[1], Attribution(NextLog)[1].range) ]_vars

\* The lines a range touches: the Line features of its bytes.
LinesOf(path, range) ==
    {pathToSyntax[path].features[i][k].id :
        <<i, k>> \in {ik \in BytesOf(path, range) \X (1..8) :
                        /\ ik[2] \in DOMAIN pathToSyntax[path].features[ik[1]]
                        /\ pathToSyntax[path].features[ik[1]][ik[2]].kind = "l"}}

\* The number of logs reported so far whose range touches the line.
LogsOnLine(path, line) ==
    Cardinality({k \in 1..reportPos :
                    LET at == Attribution((logsA \o logsB)[k])
                    IN  /\ at # <<>>
                        /\ at[1].path = path
                        /\ line \in LinesOf(path, at[1].range)})

\* C5: the counter of a line holds the number of logs reported whose range
\* touches the line, however many bytes of the line each of these ranges
\* spans: each such log has added exactly 1, and k of them exactly k.
C5_LineOncePerLog ==
    \A path \in DOMAIN report :
        \A line \in 1..(pathToSyntax[path].lines + 1) :
            LogsOnLine(path, line) > 0 =>
                /\ line \in DOMAIN report[path].l
                /\ line \notin report[path].lNaN
                /\ report[path].l[line] = LogsOnLine(path, line)

----------------------------------------------------------------------------
(* Coverage.report: the order of transactions                               *)

\* The Sources and the report both orders start from.
ReportOrigin ==
    LET S == NewSources(artifacts)
    IN  [S |-> [b2s |-> S.b2s, bi2p |-> S.bi2p, p2cs |-> S.p2cs, unique |-> S.unique],
         R |-> freshReport(pathToSyntax),
         threw |-> FALSE]

\* report(logsA, report(logsB)) from there.
OtherOrder ==
    ReportLogs(artifacts, addressToBytecodes, pathToSyntax, ReportOrigin, logsB \o logsA)

\* C10: reporting logsA and then logsB has the outcome of reporting logsB and
\* then logsA from the same Sources and report: when the one has returned,
\* the other returns too, with equal l, b, f and s counters, and when the
\* one has thrown, so does the other.
C10_OrderIndependent ==
    /\ reportState = "done" => (~OtherOrder.threw /\ OtherOrder.R = report)
    /\ reportState = "failed" => OtherOrder.threw

----------------------------------------------------------------------------
(* Coverage.report: monotonicity                                            *)

\* No counter of R is lower in R2: every number of R is a number of R2 that
\* is at least as high.
NeverLower(R, R2) ==
    \A path \in DOMAIN R :
        /\ path \in DOMAIN R2
        /\ \A n \in DOMAIN R[path].l :
              n \notin R[path].lNaN =>
                  /\ n \in DOMAIN R2[path].l
                  /\ n \notin R2[path].lNaN
                  /\ R2[path].l[n] >= R[path].l[n]
        /\ \A id \in DOMAIN R[path].b : \A alt \in DOMAIN R[path].b[id] :
              R2[path].b[id][alt] >= R[path].b[id][alt]
        /\ \A id \in DOMAIN R[path].f : R2[path].f[id] >= R[path].f[id]
        /\ \A id \in DOMAIN R[path].s : R2[path].s[id] >= R[path].s[id]

\* Every counter of R2 is a number, twice the number R holds for it.
Doubled(R, R2) ==
    \A path \in DOMAIN R2 :
        /\ path \in DOMAIN R
        /\ R2[path].lNaN = {}
        /\ R[path].lNaN = {}
        /\ \A n \in DOMAIN R2[path].l :
              n \in DOMAIN R[path].l /\ R2[path].l[n] = 2 * R[path].l[n]
        /\ \A id \in DOMAIN R2[path].b : \A alt \in DOMAIN R2[path].b[id] :
              R2[path].b[id][alt] = 2 * R[path].b[id][alt]
        /\ \A id \in DOMAIN R2[path].f : R2[path].f[id] = 2 * R[path].f[id]
        /\ \A id \in DOMAIN R2[path].s : R2[path].s[id] = 2 * R[path].s[id]

\* report(logsA, R) once more, on the report and the Sources of this state.
SameLogsAgain ==
    ReportLogs(artifacts, addressToBytecodes, pathToSyntax,
               [S |-> TheSources, R |-> report, threw |-> FALSE], logsA)

\* The first call has just returned: report is what one call on logsA
\* produces from a fresh report.
FirstCallReturned == reportState = "running" /\ reportPos = Len(logsA)

\* A second call with the same logs returns with every counter doubled.
SecondCallDoubles == ~SameLogsAgain.threw /\ Doubled(report, SameLogsAgain.R)

\* C11: no iteration of report lowers a counter of the report, whether it
\* throws or not; and when a call report(logs, fresh) has returned, calling
\* report with the same logs on its result leaves every counter at twice the
\* value it has after the first call.
C11_MonotoneAndDoubling ==
    /\ [][ (reportState = "running" /\ reportPos < Len(logsA \o logsB)) =>
              NeverLower(report, report') ]_vars
    /\ [](FirstCallReturned => SecondCallDoubles)

----------------------------------------------------------------------------
(* Coverage.buildPathToSyntax: the Line features                            *)

\* The line of the byte at offset i: 1 for the first, one more after each
\* newline byte.
LineAt(content, i) == 1 + Cardinality({k \in 1..i : content[k] = "\n"})

\* C12: once buildOffsetToPosition has run, features[i][0] is, for every
\* offset i of the content, a Line feature whose line is
\* offsetToPosition[i].line, the 1-based line that advances only after a
\* newline byte; the features of the AST come after it.
C12_LineFeatureFirst ==
    syntaxPhase \in {"walking", "done"} =>
        \A i \in 0..(Len(rawSource) - 1) :
            /\ buildOffsetToPosition(rawSource)[i].line = LineAt(rawSource, i)
            /\ built.features[i][1] = LineFeature(buildOffsetToPosition(rawSource)[i].line)
            /\ \A k \in 2..Len(built.features[i]) : built.features[i][k].kind # "l"

----------------------------------------------------------------------------
(* Coverage.filteredReport                                                  *)

\* The lines of a path with a byte that has a branch feature, a function
\* feature whose fnMap entry is not skip, or a statement feature whose
\* statementMap entry is not skip.
SignificantLines(path) ==
    LET syntax == pathToSyntax[path]
    IN  {syntax.features[i][1].id :
            i \in {j \in DOMAIN syntax.features :
                     \E k \in DOMAIN syntax.features[j] :
                        LET f == syntax.features[j][k]
                        IN  \/ f.kind = "b"
                            \/ f.kind = "f" /\ ~syntax.fnMap[f.id + 1].skip
                            \/ f.kind = "s" /\ ~syntax.statementMap[f.id + 1].skip}}

\* C13: filteredReport(report) holds exactly the paths of report that
\* neither start with '#' nor contain ':'; the l of a kept path has an entry
\* for exactly the lines with a significant byte, each equal to what the
\* report holds for the line; and the report is left as it was.
C13_FilteredReport ==
    /\ [](reportState = "filtered" =>
            /\ DOMAIN filtered =
                  {path \in DOMAIN report :
                      path[1] \notin GeneratedNames /\ \A k \in DOMAIN path : path[k] # ":"}
            /\ \A path \in DOMAIN filtered :
                  /\ DOMAIN filtered[path].l = SignificantLines(path)
                  /\ \A n \in DOMAIN filtered[path].l :
                        filtered[path].l[n] = LineValue(report[path], n))
    /\ [][reportState' = "filtered" => report' = report]_vars

\* A report with a generated path, a disambiguated path and counted lines
\* has been filtered: line 1 of A.sol is kept with its count, line 2, whose
\* only statement is skipped, is not.
C13_Witness ==
    /\ reportState = "filtered"
    /\ <<"#utility.yul">> \in DOMAIN report
    /\ <<"A.sol", ":", 0>> \in DOMAIN report
    /\ report[<<"#utility.yul">>].f[0] > 0
    /\ filtered[<<"A.sol">>].l[1].n >= 2
    /\ 2 \notin DOMAIN filtered[<<"A.sol">>].l

----------------------------------------------------------------------------
(* Coverage.report: branches and statements                                 *)

\* The first branch feature met when scanning the range: <<[id, alt]>>, or
\* <<>>.
FirstBranchMet(path, range) ==
    LET fsAt(i) == pathToSyntax[path].features[i]
        with == {i \in BytesOf(path, range) : \E k \in DOMAIN fsAt(i) : fsAt(i)[k].kind = "b"}
    IN  IF with = {} THEN <<>>
        ELSE LET i == CHOOSE i \in with : \A j \in with : i <= j
                 k == CHOOSE k \in DOMAIN fsAt(i) :
                         /\ fsAt(i)[k].kind = "b"
                         /\ \A m \in DOMAIN fsAt(i) : fsAt(i)[m].kind = "b" => k <= m
             IN  <<<<fsAt(i)[k].id, fsAt(i)[k].alt>>>>

\* The number of statement features with this id met in the range.
StatementsMet(path, range, id) ==
    Cardinality({ik \in BytesOf(path, range) \X (1..8) :
                    /\ ik[2] \in DOMAIN pathToSyntax[path].features[ik[1]]
                    /\ pathToSyntax[path].features[ik[1]][ik[2]].kind = "s"
                    /\ pathToSyntax[path].features[ik[1]][ik[2]].id = id})

\* C20: processing one log adds 1 to b[id][alt] of the first branch feature
\* met when scanning its range and leaves every other branch counter as it
\* was; it adds to every statement counter the number of times its feature
\* is met in the range.
C20_FirstBranchEveryStatement ==
    [][ (reportState = "running" /\ reportPos < Len(logsA \o logsB)) =>
          LET at == Attribution(NextLog)
          IN  \A path \in DOMAIN report :
                 /\ \A id \in DOMAIN report[path].b : \A alt \in DOMAIN report[path].b[id] :
                       report'[path].b[id][alt] - report[path].b[id][alt] =
                          IF /\ at # <<>>
                             /\ at[1].path = path
                             /\ FirstBranchMet(path, at[1].range) = <<<<id, alt>>>>
                          THEN 1 ELSE 0
                 /\ \A id \in DOMAIN report[path].s :
                       report'[path].s[id] - report[path].s[id] =
                          IF at # <<>> /\ at[1].path = path
                          THEN StatementsMet(path, at[1].range, id) ELSE 0 ]_vars

\* A log whose range holds both alternatives of a branch and two statements
\* has been reported: the first alternative and both statements are counted,
\* the second alternative is not.
C20_Witness ==
    /\ reportPos >= 1
    /\ report[<<"A.sol">>].b[0][0] >= 1
    /\ report[<<"A.sol">>].b[0][1] = 0
    /\ report[<<"A.sol">>].s[0] >= 1
    /\ report[<<"A.sol">>].s[2] >= 1

----------------------------------------------------------------------------
(* SourceMap.parse: one range per entry, fields inherited                   *)

\* The positions of the separator c in str, and the k-th of them (k >= 1).
PositionsOf(str, c) == {i \in DOMAIN str : str[i] = c}
NthPosition(S, k) == CHOOSE p \in S : Cardinality({q \in S : q < p}) = k - 1

\* The k-th piece (0-based) of str between separators c: <<piece>>, or <<>>
\* when str has fewer pieces.
PieceOf(str, c, k) ==
    LET S == PositionsOf(str, c)
    IN  IF k > Cardinality(S) THEN <<>>
        ELSE LET lo == IF k = 0 THEN 1 ELSE NthPosition(S, k) + 1
                 hi == IF k = Cardinality(S) THEN Len(str) ELSE NthPosition(S, k + 1) - 1
             IN  <<SubSeq(str, lo, hi)>>

\* Field j of entry k is there and not empty.
NonEmptyField(text, k, j) ==
    /\ PieceOf(PieceOf(text, ";", k)[1], ":", j) # <<>>
    /\ PieceOf(PieceOf(text, ";", k)[1], ":", j)[1] # <<>>

\* The value of field j after entries 0..k: that of the last of these
\* entries in which the field is not empty, 0 when there is none.
InheritedField(text, k, j) ==
    LET given == {e \in 0..k : NonEmptyField(text, e, j)}
    IN  IF given = {} THEN Num(0)
        ELSE LET e == CHOOSE e \in given : \A d \in given : d <= e
             IN  parseInt(PieceOf(PieceOf(text, ";", e)[1], ":", j)[1])

\* C17: parse yields one range per semicolon-separated entry, and range k
\* holds, for each of s, l and f, the value of the last entry up to k in
\* which that field is not empty, 0 if there is none; the 4th and 5th
\* fields play no part.
C17_ParseInheritsFields ==
    parsePhase = "parsed" =>
        /\ Len(instructionIndexToRanges) = Cardinality(PositionsOf(sourceMapText, ";")) + 1
        /\ \A k \in 0..(Len(instructionIndexToRanges) - 1) :
              instructionIndexToRanges[k + 1] =
                  [start |-> InheritedField(sourceMapText, k, 0),
                   length |-> InheritedField(sourceMapText, k, 1),
                   index |-> InheritedField(sourceMapText, k, 2)]

\* A source map of three entries has been parsed: the second, empty, has
\* inherited start 1 from the first, and the third has set it to 0.
C17_Witness ==
    /\ parsePhase = "parsed"
    /\ Len(instructionIndexToRanges) = 3
    /\ PieceOf(sourceMapText, ";", 1) = <<<<>>>>
    /\ instructionIndexToRanges[1].start = Num(1)
    /\ instructionIndexToRanges[2].start = Num(1)
    /\ instructionIndexToRanges[3].start = Num(0)

\* The fault followInfo raises at log i of a trace, told from the trace
\* alone: the depth after log i is that of the next log, or its own.
DepthAfter(i) ==
    IF i + 1 \in DOMAIN structLogs THEN structLogs[i + 1].depth ELSE structLogs[i].depth
InconsistentAt(i) ==
    \/ /\ structLogs[i].op \in CreateOps
       /\ DepthAfter(i) # structLogs[i].depth + 1
    \/ /\ structLogs[i].op \notin CallOps \cup CreateOps
       /\ DepthAfter(i) > structLogs[i].depth

\* C18: followInfo faults at a log exactly when the log is a CREATE or
\* CREATE2 not followed by depth + 1 (the last log being followed by its
\* own depth), or is neither a call nor a creation and is followed by a
\* greater depth; after a fault nothing more happens: crawl makes no Trace,
\* no address is loaded and the report stays as it is, and a crawl that did
\* return went over a trace with no such log.
C18_FaultOnInconsistentTrace ==
    /\ [][/\ CanIterate => ((followState' = "fault") <=> InconsistentAt(followIdx))
          /\ followState = "fault" => UNCHANGED vars]_vars
    /\ [](followState \in {"done", "crawled", "loaded"} =>
             \A i \in DOMAIN structLogs : ~InconsistentAt(i))
    /\ [](followState = "fault" =>
             /\ traceAddressToBytecodes = EmptyObject
             /\ loaded = EmptyObject
             /\ report = <<>>)

\* A creation that is the last log of its trace has faulted.
C18_Witness ==
    /\ followState = "fault"
    /\ followIdx = Len(structLogs)
    /\ structLogs[followIdx].op \in CreateOps

\* The bytecode a tagged address stands for: the input of the transaction
\* for the null address of a creation, the answer to eth_getCode otherwise,
\* both without their 0x; <<>> for an address that is no address at all.
ExpectedBytecode(address) ==
    CASE address.t = "null" -> <<RL(Slice(TxInput, 2, Len(TxInput)))>>
      [] address.t = "string" ->
             <<RL(Slice(GetCode(UnRL(address.s)), 2, Len(GetCode(UnRL(address.s)))))>>
      [] OTHER -> <<>>

\* The logs of the trace that are tagged by address.
AddressTagged == {i \in DOMAIN taggedLogs : taggedLogs[i].tag = "address"}

\* C16: after crawl, trace.addressToBytecodes holds, for the address of
\* every log tagged by address, the answer to eth_getCode without 0x, and
\* the transaction input without 0x for the null address of a creation;
\* after loadAddresses, addressToBytecode resolves the address of every
\* such log to that bytecode.
C16_EveryAddressResolves ==
    /\ followState \in {"crawled", "loaded"} =>
          \A i \in AddressTagged :
             LET key == PropertyKey(taggedLogs[i].value)
             IN  /\ key \in DOMAIN traceAddressToBytecodes.at
                 /\ <<traceAddressToBytecodes.at[key]>> = ExpectedBytecode(taggedLogs[i].value)
    /\ followState = "loaded" =>
          \A i \in AddressTagged :
             /\ addressToBytecode(addressToBytecodes, taggedLogs[i].value) # <<>>
             /\ addressToBytecode(addressToBytecodes, taggedLogs[i].value)
                    = ExpectedBytecode(taggedLogs[i].value)

\* The same, for the traces in which no log is tagged by an undefined address.
C16_ExceptUndefined ==
    (\A i \in AddressTagged : taggedLogs[i].value # Undefined) => C16_EveryAddressResolves

\* A loaded trace of a creation with a call in it, every address defined.
C16_DefinedWitness ==
    /\ followState = "loaded"
    /\ txTo = Null
    /\ \E i \in AddressTagged : taggedLogs[i].value.t = "string"
    /\ \E i \in AddressTagged : taggedLogs[i].value = Null

\* The upper-case letter of a character, the character itself when it has none.
UpperLetters == {"A", "B", "C", "D", "E", "F", "X", "N", "U", "L"}
UpperChar(c) ==
    IF \E u \in UpperLetters : LowerChar(u) = LowerChar(c)
    THEN CHOOSE u \in UpperLetters : LowerChar(u) = LowerChar(c)
    ELSE c

RECURSIVE CaseVariants(_)
\* Every upper/lower-case variant of a string.
CaseVariants(str) ==
    IF str = <<>> THEN {<<>>}
    ELSE {<<c>> \o rest : c \in {LowerChar(Head(str)), UpperChar(Head(str))},
                          rest \in CaseVariants(Tail(str))}

\* An address no call has loaded in any case variant; null and undefined
\* stand for the keys they make.
NeverLoaded(address) ==
    \A k \in everLoaded : ToLowerCase(UnRL(k)) # ToLowerCase(UnRL(PropertyKey(address)))

\* An unknown address fails, and no lookup changes addressToBytecodes.
UnknownAddressFails ==
    /\ [](\A address \in AddressChoices :
             NeverLoaded(address) => addressToBytecode(addressToBytecodes, address) = <<>>)
    /\ [](lastAddressLookup.called /\ NeverLoaded(lastAddressLookup.address) =>
             lastAddressLookup.found = <<>>)
    /\ [][lastAddressLookup' # lastAddressLookup =>
             addressToBytecodes' = addressToBytecodes]_vars

\* C19 as stated: after loadAddresses(m), addressToBytecode of every case
\* variant of every key a of m returns m[a]; an address never loaded in
\* any case variant fails, and the lookup leaves addressToBytecodes as it was.
C19_AnyCaseReturnsLoaded ==
    /\ [](\A a \in DOMAIN loaded.at : \A v \in CaseVariants(UnRL(a)) :
                addressToBytecode(addressToBytecodes, Str(v)) = <<loaded.at[a]>>)
    /\ UnknownAddressFails

\* The last key of m, in the order of its keys, that is a case variant of a.
LastVariant(m, a) ==
    LET at == CHOOSE i \in DOMAIN m.keys :
                  /\ ToLowerCase(UnRL(m.keys[i])) = ToLowerCase(UnRL(a))
                  /\ \A j \in DOMAIN m.keys :
                        ToLowerCase(UnRL(m.keys[j])) = ToLowerCase(UnRL(a)) => j <= i
    IN  m.keys[at]

\* C19 amended: after loadAddresses(m), addressToBytecode of every case
\* variant of every key a of m returns m[b], b being the last key of m, in
\* the order of its keys, that is a case variant of a; an address never
\* loaded in any case variant fails, and the lookup leaves
\* addressToBytecodes as it was.
C19_AnyCaseReturnsLastLoaded ==
    /\ [](\A a \in DOMAIN loaded.at : \A v \in CaseVariants(UnRL(a)) :
                addressToBytecode(addressToBytecodes, Str(v))
                    = <<loaded.at[LastVariant(loaded, a)]>>)
    /\ UnknownAddressFails

\* A load after another gave two case variants of one address different
\* bytecodes, and a third variant was looked up and found.
C19_Witness ==
    /\ everLoaded # DOMAIN loaded.at
    /\ \E a, b \in DOMAIN loaded.at :
          /\ a # b
          /\ ToLowerCase(UnRL(a)) = ToLowerCase(UnRL(b))
          /\ loaded.at[a] # loaded.at[b]
          /\ lastAddressLookup.called
          /\ lastAddressLookup.address \notin {Str(UnRL(a)), Str(UnRL(b))}
          /\ lastAddressLookup.found = <<loaded.at[LastVariant(loaded, a)]>>

\* C14: traceAndReport never throws, and when it has returned the logs of
\* every transaction of txHashes that can be traced and reported have gone
\* through report, whatever the other hashes of the call are.
C14_ErrorsPerTransaction ==
    /\ tarState # "threw"
    /\ tarState = "returned" =>
          \A k \in DOMAIN txHashes : txHashes[k] = GoodTx => k \in reported

\* The same, for the calls with no hash that fails.
C14_WithoutFailure ==
    (\A k \in DOMAIN txHashes : txHashes[k] = GoodTx) => C14_ErrorsPerTransaction

\* A call with two good hashes returned.
C14_GoodWitness ==
    /\ tarState = "returned"
    /\ txHashes = <<GoodTx, GoodTx>>
    /\ reported = {1, 2}

\* The requests of the provider that trace a transaction.
TracingMethods == {"eth_getTransactionByHash", "debug_traceTransaction", "eth_getCode"}

\* Request k of an intercepted eth_call is the one its place asks for: the
\* eth_call with the parameters given, evm_snapshot, eth_sendTransaction of
\* the call object alone, the query of the pending block, and from then on
\* tracing requests; an evm_revert comes last, with the id the snapshot got.
InPlace(call, k) ==
    LET r == call.sent[k]
    IN  CASE k = 1 -> r.method = "eth_call" /\ r.params = call.args.params
          [] k = 2 -> r.method = "evm_snapshot"
          [] k = 3 -> r.method = "eth_sendTransaction" /\ r.params = <<call.args.params[1]>>
          [] k = 4 -> r.method = "eth_getBlockByNumber" /\ r.params = <<"pending", FALSE>>
          [] OTHER -> \/ r.method \in TracingMethods /\ k < Len(call.sent)
                      \/ r.method \in TracingMethods /\ call.settled = "no"
                      \/ /\ r.method = "evm_revert"
                         /\ k = Len(call.sent)
                         /\ r.params = <<call.sent[2].response>>

AllSucceeded(call) == \A k \in DOMAIN call.sent : call.sent[k].ok

\* C15: of an intercepted eth_call whose provider requests all succeed, the
\* provider receives the eth_call, evm_snapshot, eth_sendTransaction with
\* the same call object, the pending-block query, the tracing requests if
\* any, and last evm_revert with the id that evm_snapshot returned; the
\* request is then fulfilled with the answer to the first eth_call.
C15_CallRequestOrder ==
    \A c \in DOMAIN inflight :
       LET call == inflight[c]
       IN  call.args.method = "eth_call" /\ AllSucceeded(call) =>
              /\ \A k \in DOMAIN call.sent : InPlace(call, k)
              /\ call.settled # "rejected"
              /\ call.settled = "fulfilled" =>
                    /\ Len(call.sent) >= 5
                    /\ call.sent[Len(call.sent)].method = "evm_revert"
                    /\ call.value = call.sent[1].response

\* An eth_call was traced in full and fulfilled while another eth_call took
\* a snapshot of its own before it.
C15_Witness ==
    \E c, d \in DOMAIN inflight :
       /\ c # d
       /\ inflight[c].args.method = "eth_call"
       /\ inflight[d].args.method = "eth_call"
       /\ AllSucceeded(inflight[c])
       /\ inflight[c].settled = "fulfilled"
       /\ Len(inflight[c].sent) = 8
       /\ inflight[c].snapId = 2
       /\ inflight[d].snapId = 1

\* The requests of an intercepted call that follow the query of the pending
\* block at place k.
AfterPending(call, k) == {j \in DOMAIN call.sent : j > k}

\* C21: an intercepted eth_sendTransaction sends the transaction and then
\* asks for the pending block; tracing requests follow if and only if the
\* block was answered with no transaction; the request is rejected only
\* when one of those two requests failed, and else is fulfilled with the
\* hash the provider returned, whether the tracing failed or not.
C21_SendToleratesTracing ==
    \A c \in DOMAIN inflight :
       LET call == inflight[c]
       IN  call.args.method = "eth_sendTransaction" =>
              /\ Len(call.sent) >= 1 =>
                    /\ call.sent[1].method = "eth_sendTransaction"
                    /\ call.sent[1].params = <<call.args.params[1]>>
              /\ Len(call.sent) >= 2 =>
                    /\ call.sent[1].ok
                    /\ call.sent[2].method = "eth_getBlockByNumber"
                    /\ call.sent[2].params = <<"pending", FALSE>>
              /\ \A k \in AfterPending(call, 2) : call.sent[k].method \in TracingMethods
              /\ call.settled # "no" =>
                    /\ call.settled = "rejected" <=> ~call.sent[Len(call.sent)].ok
                                                     /\ Len(call.sent) <= 2
                    /\ call.settled = "fulfilled" =>
                          /\ call.value = call.sent[1].response
                          /\ AfterPending(call, 2) # {} <=> call.sent[2].response = 0

\* An eth_sendTransaction was fulfilled with its hash though a tracing
\* request failed.
C21_Witness ==
    \E c \in DOMAIN inflight :
       /\ inflight[c].args.method = "eth_sendTransaction"
       /\ inflight[c].settled = "fulfilled"
       /\ Len(inflight[c].sent) >= 3
       /\ ~inflight[c].sent[Len(inflight[c].sent)].ok
       /\ inflight[c].value = inflight[c].sent[1].response

\* followInfo goes over the whole trace without a fault.
Accepted == \A i \in DOMAIN structLogs : ~InconsistentAt(i)

\* C22: while followInfo goes over a trace it accepts, the stack holds, when
\* a log is about to be emitted, as many frames as the log is deep above the
\* first log, plus one, whatever opcode came before a decrease of the depth.
C22_FramesMatchDepth ==
    (Accepted /\ CanIterate) =>
        Len(frames) = structLogs[followIdx].depth - structLogs[1].depth + 1

\* The same, for the traces in which no call-family log is followed by a
\* smaller depth.
C22_NoCallBeforeDecrease ==
    (\A i \in DOMAIN structLogs :
        structLogs[i].op \in CallOps => DepthAfter(i) >= structLogs[i].depth)
    => C22_FramesMatchDepth

\* A log is about to be emitted after the depth fell behind an opcode that
\* is no call.
C22_PopWitness ==
    /\ Accepted
    /\ CanIterate
    /\ followIdx = 3
    /\ structLogs[2].op \notin CallOps
    /\ structLogs[3].depth < structLogs[2].depth

\* The places of the requests of a call that revert the snapshot id.
RevertsOf(call, id) ==
    {k \in DOMAIN call.sent :
        call.sent[k].method = "evm_revert" /\ call.sent[k].params = <<id>>}

\* The snapshot of an eth_call was taken, and neither it nor a revert failed.
Bracketed(call) ==
    /\ call.args.method = "eth_call"
    /\ Len(call.sent) >= 2
    /\ \A k \in DOMAIN call.sent :
          call.sent[k].method \in {"eth_call", "evm_snapshot", "evm_revert"} => call.sent[k].ok

\* C23: when interceptCall has settled after taking a snapshot, it has sent
\* exactly one evm_revert with the id of that snapshot, after it, whether
\* the replayed eth_sendTransaction, the pending-block query and the
\* tracing succeeded or failed, and the caller is given the result of the
\* eth_call.
C23_SnapshotRevertPaired ==
    \A c \in DOMAIN inflight :
       LET call == inflight[c]
       IN  (Bracketed(call) /\ call.settled # "no") =>
              /\ Cardinality(RevertsOf(call, call.sent[2].response)) = 1
              /\ \A k \in RevertsOf(call, call.sent[2].response) : k > 2
              /\ call.settled = "fulfilled"
              /\ call.value = call.sent[1].response

\* The same, for the calls whose replay and pending-block query succeeded.
C23_WhenReplaySucceeds ==
    (\A c \in DOMAIN inflight : \A k \in DOMAIN inflight[c].sent :
        inflight[c].sent[k].method \in {"eth_sendTransaction", "eth_getBlockByNumber"}
            => inflight[c].sent[k].ok)
    => C23_SnapshotRevertPaired

\* An eth_call whose tracing failed was reverted and fulfilled.
C23_TracingFailedWitness ==
    \E c \in DOMAIN inflight :
       /\ Bracketed(inflight[c])
       /\ inflight[c].settled = "fulfilled"
       /\ \E k \in DOMAIN inflight[c].sent :
             inflight[c].sent[k].method \in TracingMethods /\ ~inflight[c].sent[k].ok

\* The hashes the provider gave the transactions users sent.
UserTransactions ==
    {inflight[c].txHash : c \in {d \in DOMAIN inflight :
                                    /\ inflight[d].args.method = "eth_sendTransaction"
                                    /\ inflight[d].txHash # 0}}

\* C24: with two requests in flight, a transaction a user sent and the
\* provider accepted stays in the provider's state whatever evm_revert the
\* interceptor sends, and every evm_revert the provider answered went back
\* to a snapshot the provider still had.
C24_RevertUndoesOwnReplayOnly ==
    /\ \A h \in UserTransactions : \E k \in DOMAIN chain : chain[k] = h
    /\ \A c \in DOMAIN inflight : \A k \in DOMAIN inflight[c].sent :
          (inflight[c].sent[k].method = "evm_revert" /\ inflight[c].sent[k].ok)
              => inflight[c].sent[k].response = TRUE

\* The same, while at most one request has reached the provider.
C24_OneAtATime ==
    (\E c \in DOMAIN inflight : inflight[c].sent = <<>>) => C24_RevertUndoesOwnReplayOnly

\* An eth_call was reverted alone: its replay is gone from the provider's
\* state and its snapshot was still there.
C24_AloneWitness ==
    \E c, d \in DOMAIN inflight :
       /\ inflight[d].sent = <<>>
       /\ inflight[c].args.method = "eth_call"
       /\ inflight[c].settled = "fulfilled"
       /\ inflight[c].txHash = 1
       /\ chain = <<>>

(***************************************************************************)
(* C25. The requests of one Trace.crawl.                                   *)
(***************************************************************************)

\* The addresses the eth_getCode requests of the running crawl asked for.
CodeRequested ==
    [k \in 1..(Len(requests) - 2) |-> requests[k + 2].params[1]]

\* C25: one crawl sends eth_getTransactionByHash once, then
\* debug_traceTransaction once, then at most one eth_getCode for each
\* distinct address of the tagged logs, whatever code the provider answers.
C25_OneCodeRequestPerAddress ==
    /\ Len(requests) >= 1 => requests[1].method = "eth_getTransactionByHash"
    /\ Len(requests) >= 2 => requests[2].method = "debug_traceTransaction"
    /\ \A k \in 3..Len(requests) : requests[k].method = "eth_getCode"
    /\ \A j, k \in DOMAIN CodeRequested :
           CodeRequested[j] = CodeRequested[k] => j = k

\* The same, for the crawls in which every address asked for holds code.
C25_WhenCodeIsHeld ==
    (\A k \in DOMAIN CodeRequested :
         /\ PropertyKey(CodeRequested[k]) \in DOMAIN traceAddressToBytecodes.at
         /\ traceAddressToBytecodes.at[PropertyKey(CodeRequested[k])] # <<>>)
    => C25_OneCodeRequestPerAddress

\* A crawl has asked for the code of an address and has been answered "0x".
C25_EmptyCodeWitness ==
    /\ tarState = "running"
    /\ followState = "crawled"
    /\ \E k \in DOMAIN CodeRequested :
           traceAddressToBytecodes.at[PropertyKey(CodeRequested[k])] = <<>>

(***************************************************************************)
(* C26. The line counters freshReport allocates.                           *)
(***************************************************************************)

\* The line numbers that occur as the Line feature of some byte of the path.
FeatureLines(path) ==
    {pathToSyntax[path].features[i][k].id :
        <<i, k>> \in {ik \in (DOMAIN pathToSyntax[path].features) \X (1..8) :
                        /\ ik[2] \in DOMAIN pathToSyntax[path].features[ik[1]]
                        /\ pathToSyntax[path].features[ik[1]][ik[2]].kind = "l"}}

\* C26: every line number that occurs as the Line feature of some byte has
\* an entry in the l of freshReport, and after any sequence of report calls
\* every l[line] is a non-negative integer.
C26_LineCountersInitialised ==
    \A path \in DOMAIN report :
        /\ FeatureLines(path) \subseteq DOMAIN report[path].l
        /\ report[path].lNaN = {}
        /\ \A n \in DOMAIN report[path].l : report[path].l[n] \in Nat

\* The second half alone: no l[line] is NaN.
C26_CountersAreNumbers ==
    \A path \in DOMAIN report : report[path].lNaN = {}

\* What does hold: the lines below lines.length have their entry, the entries
\* l allocates stay non-negative integers, and only the line numbered
\* lines.length can be NaN.
C26_ExceptLastLine ==
    \A path \in DOMAIN report :
        /\ FeatureLines(path) \ {pathToSyntax[path].lines} \subseteq DOMAIN report[path].l
        /\ report[path].lNaN \subseteq {pathToSyntax[path].lines}
        /\ \A n \in DOMAIN report[path].l : report[path].l[n] \in Nat

\* A report call has incremented the counter of the last line of a file.
C26_LastLineWitness ==
    \E path \in DOMAIN report : pathToSyntax[path].lines \in report[path].lNaN

(***************************************************************************)
(* C27. Coverage.report on a log of no source.                             *)
(***************************************************************************)

\* The range report computes for the next log, as a sequence of at most one
\* SourceRange: none when the iteration throws before it has one.
NextRange ==
    LET codes == IF Truthy(NextLog.bytecode) THEN <<NextLog.bytecode.s>>
                 ELSE addressToBytecode(addressToBytecodes, NextLog.address)
    IN  IF codes = <<>> THEN <<>>
        ELSE LET r == Resolve(bytecodeToSourceMaps, codes[1])
             IN  IF r.how = "NoSourceMap" THEN <<>>
                 ELSE IF /\ r.how = "fuzzy"
                         /\ insertAndIndexBytecodeAndSourceMap(artifacts, TheSources,
                                                               codes[1], r.sourceMap).fault
                 THEN <<>>
                 ELSE pcToRange(artifacts, r.sourceMap, NextLog.pc)

\* C27: a log whose source range has length 0 or a negative length leaves
\* every counter of the report as it was and does not make report fail,
\* whether or not the bytecode knows the source index of the range.
C27_EmptyRangeLeavesReport ==
    [][ (/\ ReportNextLog
         /\ NextRange # <<>>
         /\ NextRange[1].length <= 0)
        => /\ report' = report
           /\ reportState' = "running"
           /\ reportPos' = reportPos + 1 ]_vars

\* report has gone past a log whose range has no length and whose source
\* index the bytecode does not know.
C27_Witness ==
    /\ reportState = "running"
    /\ reportPos >= 1
    /\ LET log == (logsA \o logsB)[reportPos]
       IN  /\ log.pc \in DOMAIN RangesA
           /\ RangesA[log.pc].length <= 0
           /\ log.bytecode.t = "string"
           /\ Resolve(bytecodeToSourceMaps, log.bytecode.s).how # "NoSourceMap"
           /\ compilerSourcePath(bytecodeAndIndexToPath, LongCode,
                                 RangesA[log.pc].index) = <<>>

====
